---- MODULE Spec2Model ----
(***************************************************************************)
(* ConDaLF client: the record serializer (rec_serial.c) on top of the      *)
(* SenML/CBOR encoder (senml_enc.c) and the peek ring buffer.              *)
(*                                                                         *)
(* The serializer is driven by a caller that issues recser_init,           *)
(* recser_put and recser_swap with records and buffers drawn from small    *)
(* sets.  Byte counts follow the CBOR encoding rules the encoder relies    *)
(* on: a head of 1, 2, 3 or 5 bytes, text = head + bytes, a double = 9     *)
(* bytes, one byte per small integer map key.                              *)
(***************************************************************************)
EXTENDS Integers, Sequences, FiniteSets, TLC

(***************************************************************************)
(* Bounds of the model.                                                    *)
(***************************************************************************)
\* number of recser_put calls the caller issues in one run
MaxPuts == 3
\* flushes of the logger in one behaviour
MaxFlush == 2
\* width of size_t in bits; buffer lengths are computed modulo 2^SizeBits
SizeBits == 16
\* transfer jobs handed to the long-term buffer in one behaviour
MaxJobs == 2
\* transfer jobs handed to the publisher in one behaviour
MaxPubJobs == 6
\* ltb_force_publish requests in one behaviour
MaxForce == 1
\* width of a pool file id in bits; ids are computed modulo 2^FidBits
FidBits == 3
\* dpool_move_file calls on one pool directory in one behaviour
MaxMoves == 3
\* transfer jobs handed to the long-term buffer while its worker is busy
MaxBurst == 5
\* transfer jobs handed to the long-term buffer while instances come and go
MaxDispJobs == 1
\* recstr_put calls on a logger that is closed in the same behaviour
MaxStreamCalls == 2

(***************************************************************************)
(* Program constants.                                                      *)
(***************************************************************************)
ARRAY_MAX_BYTES == 4
RECORDUNIT_ENUMSIZE == 59
RECORDUNIT_NONE == 0
\* size of the unbounded simulation used when the serializer is invalidated
InvalidateSimSize == 65535

SizeMod == 2 ^ SizeBits

\* size_t subtraction
SizeSub(a, b) == (a - b + SizeMod) % SizeMod

\* return values
Ok == "Ok"
EINVAL == "EINVAL"
ENOSPC == "ENOSPC"
ENOBUFS == "ENOBUFS"
EAGAIN == "EAGAIN"
ENODATA == "ENODATA"
ENOMEM == "ENOMEM"
EWOULDBLOCK == "EWOULDBLOCK"
ENOENT == "ENOENT"

NULL == 0

(***************************************************************************)
(* Records.  name is the length of the borrowed name string, val the       *)
(* integer value or (for a STRING record) the length of the string that    *)
(* str points to, str the heap pointer of the owned string (NULL = 0).     *)
(***************************************************************************)
RECORDTYPE_EMPTY == "EMPTY"
RECORDTYPE_U32 == "U32"
RECORDTYPE_I32 == "I32"
RECORDTYPE_STRING == "STRING"

\* strlen of senml_units[1 .. RECORDUNIT_ENUMSIZE - 1]
senml_units ==
    << 1, 2, 1, 1, 1, 1, 2, 3, 2, 3, 2, 1, 2, 1, 1, 1, 1, 1, 3, 1,
       2, 1, 1, 3, 2, 2, 2, 2, 2, 3, 2, 2, 1, 3, 4, 4, 3, 4, 5, 3,
       5, 3, 3, 2, 2, 3, 4, 5, 1, 1, 3, 3, 2, 3, 5, 8, 5, 3 >>

\* a slot of the ring that was never written (malloc'ed, not initialised)
UninitRec == [name |-> 0, ts |-> 0, type |-> "UNINIT", unit |-> 0, val |-> 0, str |-> NULL]

\* record_t rec = { 0 }
ZeroRec == [name |-> 0, ts |-> 0, type |-> RECORDTYPE_EMPTY, unit |-> 0, val |-> 0, str |-> NULL]

\* record_move(to, from): the pair <<to, from>> after the move
record_move(from) ==
    << from, IF from.type = RECORDTYPE_STRING THEN [from EXCEPT !.str = NULL] ELSE from >>

(***************************************************************************)
(* CBOR byte accounting.                                                   *)
(***************************************************************************)
\* bytes of a CBOR head carrying the argument n
HeadLen(n) ==
    IF n < 24 THEN 1 ELSE IF n < 256 THEN 2 ELSE IF n < 65536 THEN 3 ELSE 5

\* the appends of AddTextToMapN(key, text of length l): key, text head, bytes
TextToMapN(l) == << 1, HeadLen(l), l >>

\* the appends of AddDoubleToMapN: key, IEEE-754 double
DoubleToMapN == << 1, 9 >>

\* the appends of AddUInt64ToMapN / AddInt64ToMapN
IntToMapN(v) == << 1, HeadLen(IF v < 0 THEN -1 - v ELSE v) >>

(***************************************************************************)
(* The encoder context: ptr = NULL is the simulation mode, size the buffer *)
(* size, pos the bytes written, err the sticky out-of-space flag of the    *)
(* output buffer, cnt the items of the top-level array, nest the maps left *)
(* open, recs the records whose maps were written and closed.              *)
(***************************************************************************)
ZeroEnc == [ptr |-> NULL, size |-> 0, pos |-> 0, err |-> FALSE, cnt |-> 0, nest |-> 0, recs |-> << >>]

\* the element of a one-element set: binds a value that is computed once
The(S) == CHOOSE x \in S : TRUE

\* one append of n bytes to the output buffer
EncAppend(enc, n) ==
    IF enc.err \/ n > enc.size - enc.pos
    THEN [enc EXCEPT !.err = TRUE]
    ELSE [enc EXCEPT !.pos = @ + n]

RECURSIVE EncAppendAll(_, _)
EncAppendAll(enc, ns) ==
    IF ns = << >> THEN enc
    ELSE The({ EncAppendAll(e, Tail(ns)) : e \in {EncAppend(enc, Head(ns))} })

\* senml_enc_init(enc, buf, size, base): base is strlen(base->name), 0 = no name
senml_enc_init(ptr, size, base) ==
    IF base # NULL
    THEN The({ [enc |-> [e1 EXCEPT !.cnt = IF e1.err THEN 0 ELSE 1],
                ret |-> IF e1.err THEN ENOSPC ELSE Ok] :
               e1 \in {EncAppendAll([ZeroEnc EXCEPT !.ptr = ptr, !.size = size],
                                    TextToMapN(base) \o << 1 >>)} })
    ELSE [enc |-> [ZeroEnc EXCEPT !.ptr = ptr, !.size = size], ret |-> Ok]

\* the appends senml_enc_put makes for the name and the timestamp
PutHeadBytes(rec) == TextToMapN(rec.name) \o DoubleToMapN

\* the appends for the unit entry
PutUnitBytes(rec) ==
    IF rec.unit # RECORDUNIT_NONE THEN TextToMapN(senml_units[rec.unit]) ELSE << >>

\* the appends for the value entry and the head of the closed map
PutValueBytes(rec) ==
    (IF rec.type = RECORDTYPE_STRING THEN TextToMapN(rec.val) ELSE IntToMapN(rec.val))
    \o << 1 >>

\* senml_enc_put after the name and the timestamp were appended (e1)
EncPutRest(e1, rec) ==
    IF rec.unit # RECORDUNIT_NONE /\ rec.unit >= RECORDUNIT_ENUMSIZE
    THEN \* returns with the record's map left open
         [enc |-> [e1 EXCEPT !.nest = @ + 1], ret |-> EINVAL]
    ELSE IF rec.type \notin {RECORDTYPE_U32, RECORDTYPE_I32, RECORDTYPE_STRING}
    THEN The({ [enc |-> [e2 EXCEPT !.nest = @ + 1], ret |-> EINVAL] :
               e2 \in {EncAppendAll(e1, PutUnitBytes(rec))} })
    ELSE The({ IF e3.err
               THEN [enc |-> e3, ret |-> ENOSPC]
               ELSE [enc |-> [e3 EXCEPT !.cnt = @ + 1,
                                        !.recs = IF e3.ptr # NULL THEN Append(@, rec) ELSE @],
                     ret |-> Ok] :
               e3 \in {EncAppendAll(e1, PutUnitBytes(rec) \o PutValueBytes(rec))} })

\* senml_enc_put(enc, rec): the encoder after the call and the return value
senml_enc_put(enc, rec) ==
    The({ EncPutRest(e1, rec) : e1 \in {EncAppendAll(enc, PutHeadBytes(rec))} })

\* senml_enc_close(enc, &enc_len): enc_len holds a defined value only when
\* defined is TRUE
senml_enc_close(enc) ==
    The({ IF e1.err THEN [ret |-> ENOSPC, defined |-> FALSE, len |-> 0]
          ELSE IF e1.nest # 0 THEN [ret |-> EINVAL, defined |-> FALSE, len |-> 0]
          ELSE [ret |-> Ok, defined |-> TRUE, len |-> e1.pos] :
          e1 \in {EncAppend(enc, HeadLen(enc.cnt))} })

(***************************************************************************)
(* The peek ring buffer.  a maps the slots 0 .. len-1 to records; ri and   *)
(* wi grow without being reduced, the slot of an index is index & (len-1). *)
(***************************************************************************)
ZeroCb == [a |-> << >>, len |-> 0, ri |-> 0, wi |-> 0]

\* index & msk, for len a power of two
Slot(cb, i) == i % cb.len

peekcb_init(len) ==
    [a |-> [i \in 0 .. len - 1 |-> UninitRec], len |-> len, ri |-> 0, wi |-> 0]

peekcb_fill(cb) == SizeSub(cb.wi, cb.ri)

\* peekcb_put(pcb, rec, 1): the ring after the call and the number written
peekcb_put(cb, r) ==
    LET empty == cb.len - SizeSub(cb.wi, cb.ri)
        to_write == IF 1 > empty THEN empty ELSE 1
    IN  IF to_write = 1
        THEN [cb |-> [cb EXCEPT !.a[Slot(cb, cb.wi)] = r, !.wi = @ + 1], n |-> 1]
        ELSE [cb |-> cb, n |-> 0]

\* peekcb_get(pcb, &rec, 1): rec is written only when n = 1
peekcb_get(cb) ==
    LET fill == SizeSub(cb.wi, cb.ri)
        to_read == IF 1 > fill THEN fill ELSE 1
    IN  IF to_read = 1
        THEN [cb |-> [cb EXCEPT !.ri = @ + 1], rec |-> cb.a[Slot(cb, cb.ri)], n |-> 1]
        ELSE [cb |-> cb, rec |-> ZeroRec, n |-> 0]

\* peekcb_peek(pcb, &rec, &it)
peekcb_peek(cb) ==
    IF peekcb_fill(cb) = 0
    THEN [ret |-> ENODATA, rec |-> ZeroRec, it |-> 0]
    ELSE [ret |-> Ok, rec |-> cb.a[Slot(cb, cb.ri)], it |-> cb.ri]

\* peekcb_next(pcb, &rec, &it): rec and it are written only on Ok
peekcb_next(cb, r, itp) ==
    LET it == itp + 1
        diff == cb.wi - it
    IN  IF diff = 0 THEN [ret |-> ENODATA, rec |-> r, it |-> itp]
        ELSE IF diff < 0 \/ diff > peekcb_fill(cb) THEN [ret |-> EINVAL, rec |-> r, it |-> itp]
        ELSE [ret |-> Ok, rec |-> cb.a[Slot(cb, it)], it |-> it]

\* the queued records, oldest first
RingRecs(cb) == [i \in 1 .. peekcb_fill(cb) |-> cb.a[Slot(cb, cb.ri + i - 1)]]

(***************************************************************************)
(* The serializer.                                                         *)
(***************************************************************************)
NoBuf == [ptr |-> NULL, len |-> 0]

\* memset(rs, 0, sizeof(*rs))
ZeroRs == [buf |-> NoBuf, cb |-> ZeroCb, enc |-> ZeroEnc, fit_cnt |-> 0, base |-> NULL]

\* the size of the simulated buffer: buf.len - ARRAY_MAX_BYTES in size_t
SimSize(len) == SizeSub(len, ARRAY_MAX_BYTES)

\* one pass of the do-while loop of _recser_flush_simulate, after
\* senml_enc_put returned p
RECURSIVE FlushSimLoop(_, _, _, _, _, _)
FlushSimStep(cb, p, r, it, cnt, flushed) ==
    IF p.ret = ENOSPC THEN [enc |-> p.enc, ret |-> Ok, flushed |-> flushed]
    ELSE IF p.ret # Ok THEN [enc |-> p.enc, ret |-> p.ret, flushed |-> flushed]
    ELSE The({ IF nx.ret = ENODATA \/ cnt - 1 = 0
               THEN [enc |-> p.enc, ret |-> Ok, flushed |-> flushed + 1]
               ELSE FlushSimLoop(cb, p.enc, nx.rec, nx.it, cnt - 1, flushed + 1) :
               nx \in {peekcb_next(cb, r, it)} })

\* the do-while loop of _recser_flush_simulate
FlushSimLoop(cb, enc, r, it, cnt, flushed) ==
    The({ FlushSimStep(cb, p, r, it, cnt, flushed) : p \in {senml_enc_put(enc, r)} })

\* _recser_flush_simulate(rs, cnt): the encoder after the call, the number
\* of records accepted (ret = Ok) or the encoder's error
_recser_flush_simulate(s, cnt) ==
    IF cnt = 0 THEN [enc |-> s.enc, ret |-> Ok, flushed |-> 0]
    ELSE The({ IF pk.ret = ENODATA THEN [enc |-> v.enc, ret |-> Ok, flushed |-> 0]
               ELSE FlushSimLoop(v.cb, v.enc, pk.rec, pk.it, cnt, 0) :
               v \in {s}, pk \in {peekcb_peek(s.cb)} })

\* the pointers free() is called on for one flushed record
FreeStr(r) == IF r.type = RECORDTYPE_STRING THEN {r.str} ELSE {}

\* one pass of the while loop of _recser_flush, after peekcb_get returned g
\* and senml_enc_put of the record r1 returned p
RECURSIVE FlushLoop(_, _, _, _, _, _)
FlushStep(g, p, r1, cnt, flushed, fr) ==
    IF p.ret = ENOSPC
    THEN [cb |-> g.cb, enc |-> p.enc, ret |-> Ok, flushed |-> flushed,
          freed |-> fr \cup FreeStr(r1)]
    ELSE IF p.ret # Ok
    THEN [cb |-> g.cb, enc |-> p.enc, ret |-> p.ret, flushed |-> flushed,
          freed |-> fr \cup FreeStr(r1)]
    ELSE FlushLoop(g.cb, p.enc, r1, cnt - 1, flushed + 1, fr \cup FreeStr(r1))

\* the while loop of _recser_flush; r is the local rec, which peekcb_get
\* overwrites only when it reads a record
FlushLoop(cb, enc, r, cnt, flushed, fr) ==
    IF cnt = 0 THEN [cb |-> cb, enc |-> enc, ret |-> Ok, flushed |-> flushed, freed |-> fr]
    ELSE The({ The({ FlushStep(g, p, IF g.n = 1 THEN g.rec ELSE r, cnt, flushed, fr) :
                     p \in {senml_enc_put(enc, IF g.n = 1 THEN g.rec ELSE r)} }) :
               g \in {peekcb_get(cb)} })

\* _recser_flush(rs, cnt)
_recser_flush(s, cnt) == The({ FlushLoop(v.cb, v.enc, ZeroRec, cnt, 0, {}) : v \in {s} })

(***************************************************************************)
(* The inputs of the caller.                                               *)
(***************************************************************************)
\* the records the caller submits, before timestamp and string pointer
Shapes ==
    { [name |-> 1, type |-> RECORDTYPE_U32,    unit |-> RECORDUNIT_NONE,     val |-> 5],
      [name |-> 1, type |-> RECORDTYPE_STRING, unit |-> RECORDUNIT_NONE,     val |-> 30],
      [name |-> 1, type |-> RECORDTYPE_EMPTY,  unit |-> 1,                   val |-> 0],
      [name |-> 1, type |-> RECORDTYPE_U32,    unit |-> RECORDUNIT_ENUMSIZE, val |-> 5] }

\* the n-th record of the caller: its timestamp and its string are its own
MkRec(sh, n) ==
    [name |-> sh.name, ts |-> n, type |-> sh.type, unit |-> sh.unit, val |-> sh.val,
     str |-> IF sh.type = RECORDTYPE_STRING THEN n ELSE NULL]

\* buffer lengths passed to recser_init and to recser_swap
InitBufLens == {3, 40}
SwapBufLens == {2, 40, 64}
\* len_limit values passed to recser_init
LenLimits == {0, 2, 3, 4}
\* strlen of the base name passed to recser_init, NULL = no base name
BaseNames == {NULL, 2}
\* values an uninitialised size_t may hold
GarbageLens == {0, 1, SizeMod - 1}

VARIABLES
    constructed,  \* recser_init has succeeded
    rs,           \* the recser_t
    op,           \* the last call: "none", "init", "put", "swap"
    res,          \* its return value
    rec0,         \* the record passed to the last recser_put
    rec,          \* the caller's record after it
    out0,         \* the descriptor passed to the last recser_swap
    out,          \* the caller's descriptor after it
    envelope,     \* what the last swap encoded into the buffer handed back
    same,         \* the last call left the recser_t as it was
    expect,       \* at a swap: the puts since the serializer was last empty, if all Ok
    freed,        \* the string pointers the last call called free() on
    run,          \* the puts since the serializer was last empty
    valid0,       \* the serializer held a buffer before the last call
    len0,         \* the length of the buffer it held before the last call
    pending,      \* the records taken over by recser_put and not yet handed
                  \* back in a closed envelope, in the order of the puts
    drain,        \* the caller only repeats swap, with buffers of this size
    nput          \* number of recser_put calls issued

\* the logger (logging.c); its serializer logger->ser is rs
VARIABLES
    lg,           \* the logg_t: created, encbuf_size
    lk,           \* the stream mutex: its owner (0 = free) and the call the
                  \* owner makes under it
    handed,       \* the envelopes the driver's trysend accepted, in hand-off order
    accepted,     \* the records whose put returned 0, in the order of the puts
    lfreed,       \* the string pointers the last logger call called free() on
    regime,       \* so far every trysend returned -EWOULDBLOCK and no allocation failed
    full0,        \* the ring was full before the last logger put
    nflush        \* number of flushes issued

svars == << constructed, rs, op, res, rec0, rec, out0, out, envelope, same, expect, freed,
            run, valid0, len0, pending, drain, nput >>

\* the long-term buffer (ltb.c) and the publisher (publisher.c)
VARIABLES
    lt,           \* ltb_subsys_init has run; _nb_files_lim; _ext_cond is set
    nb_files_total, \* _nb_files_total
    publishing,   \* _publishing
    lhead,        \* the registry _ltb_lhead: the instances, head first
    ltbs,         \* the ltb_t objects: created, has a sender
    pools,        \* the ids of the conforming files in each instance's pool directory
    mbox,         \* the message queue of the dispatch worker
    wcur,         \* the message the worker has received and not yet worked off
    jobs,         \* the transfer jobs: driver, result of trysend, callback invocations
    forces,       \* the ltb_force_publish requests: result, callback invocations
    pub,          \* the publisher: created, retry_cnt, nb_jobs_snd, queue, message received
    gh            \* what the last closure did to the publication: how it began it,
                  \* its tick, how it ended it; and, while a publication runs, the
                  \* request that began it and whether a step of it has failed

\* one pool directory as the data pool (data_pool.c) sees it
VARIABLES
    pfs,          \* the directory exists; vfs_readdir reports names with a leading
                  \* '/'; the directory was empty when made; dpool_move_file calls
    pdir,         \* the names of the directory's entries
    pmoved,       \* the names dpool_move_file created and that were not removed
                  \* since, in the order of the calls
    pcall         \* the last pool call: operation, result, name or count, the
                  \* directory before it

\* one publisher instance (publisher.c) with its callers and the sender thread
VARIABLES
    ps,           \* the publ_t: allocated, retry_cnt, nb_jobs_snd, the job whose
                  \* trysend holds snd->lock (0: the lock is free)
    pmq,          \* the message queue of the sender thread
    pw,           \* the sender thread: where it is and its job
    pd,           \* the caller of delete: where it is
    pjs,          \* the jobs: path taken, return value, callback invocations
    prun,         \* the send in progress or last finished on each path: job,
                  \* attempts of net_send, result of the last one, status
    plog          \* the jobs in the order trysend accepted them and in the
                  \* order their callbacks were invoked; a callback ran or the
                  \* publ_t was used after delete had freed it

lvars == << lg, lk, handed, accepted, lfreed, regime, full0, nflush >>

pvars == << pfs, pdir, pmoved, pcall >>

qvars == << ps, pmq, pw, pd, pjs, prun, plog >>

\* the caller of recstr_close on the logger
VARIABLES
    lc            \* where the call is: "none", "flush", "invalidate", "closed"

cvars == << lc >>

\* the variables neither the serializer, the logger nor the long-term buffer use
VARIABLES
    dw,           \* the dispatch worker inside a closure: where it is, where
                  \* _ltb_publish returns to, its arg, the file it selected
    dcall,        \* the callers of _ltb_dispatch_sync: the unit on their stack,
                  \* where they are, the owner of unit.lock
    dinst         \* the instances as their users see them: "none", "creating",
                  \* "live", "deleting", "gone"

dvars == << dw, dcall, dinst >>

xvars == << pvars, qvars, cvars, dvars >>

bvars == << lt, nb_files_total, publishing, lhead, ltbs, pools, mbox, wcur, jobs, forces,
            pub, gh >>

\* the variables the data pool and the publisher leave alone
nonpool == << svars, lvars, bvars, qvars, cvars, dvars >>
nonpub == << svars, lvars, bvars, pvars, cvars, dvars >>

\* the variables the serializer's caller leaves alone
nonser == << lvars, bvars, xvars >>

vars == << svars, lvars, bvars, xvars >>

\* commit: the swap encoded into the buffer; fit: the fit_cnt it found;
\* recs: the records it encoded;
\* flushed: the return value of _recser_flush (-1 for an error); closed:
\* senml_enc_close returned 0; removed: the records it took out of the ring
NoEnvelope == [commit |-> FALSE, fit |-> 0, recs |-> << >>, flushed |-> 0, closed |-> FALSE,
               removed |-> << >>]

\* the transfer jobs, the force requests and the LTB instances of a behaviour
JobIds == 1 .. (IF MaxPubJobs > MaxJobs THEN MaxPubJobs ELSE MaxJobs)
ForceIds == 1 .. MaxForce
LtbIds == {1, 2}

\* no message
NoUnit == [type |-> "none", id |-> 0]

\* the last tick of a publication: the file it selected, how far it got, and
\* _nb_files_total before it
NoTick == [inst |-> 0, fid |-> 0, out |-> "none", total0 |-> 0]

\* the end of a publication: the request that began it (0: the publication
\* condition), the callback invoked (0: none), the terminal status, and
\* whether every step of the publication succeeded
NoEnd == [on |-> FALSE, owner |-> 0, arg |-> 0, res |-> Ok, clean |-> TRUE]

\* nothing has been published yet; evald: _ltb_upd_pub_cond was called in
\* this closure, cbeval: it had been called when the job's callback ran
NoPublication ==
    [begun |-> FALSE, forced |-> FALSE, pub0 |-> FALSE, total0 |-> 0, ext |-> TRUE,
     stored |-> 0, owner |-> 0, fault |-> FALSE, tick |-> NoTick, ended |-> NoEnd,
     jobcb |-> "none", evald |-> FALSE, cbeval |-> FALSE]

\* a transfer job: the driver it was given to, the instance it is queued
\* for, what trysend returned, how often its callback was invoked
NoJob == [drv |-> "none", inst |-> 0, ret |-> "none", cbs |-> 0]
\* a force request: what ltb_force_publish returned, how often its callback
\* was invoked, whether the worker found a publication in progress
NoForce == [ret |-> "none", cbs |-> 0, busy |-> FALSE]

\* the static variables of ltb.c and publisher.c before any call
LtbInit ==
    /\ lt = [inited |-> FALSE, lim |-> 0, ext |-> FALSE]
    /\ nb_files_total = 0
    /\ publishing = FALSE
    /\ lhead = << >>
    /\ ltbs = [i \in LtbIds |-> [created |-> FALSE, sender |-> FALSE]]
    /\ pools = [i \in LtbIds |-> {}]
    /\ mbox = << >>
    /\ wcur = NoUnit
    /\ jobs = [j \in JobIds |-> NoJob]
    /\ forces = [k \in ForceIds |-> NoForce]
    /\ pub = [created |-> FALSE, retry_cnt |-> 0, nb_jobs_snd |-> 0, queue |-> << >>,
              cur |-> 0]
    /\ gh = NoPublication

\* no pool call yet
NoPoolCall == [op |-> "none", ret |-> Ok, name |-> << >>, cnt |-> 0, before |-> {}]

PoolInit ==
    /\ pfs = [made |-> FALSE, slash |-> FALSE, fresh |-> FALSE, moves |-> 0]
    /\ pdir = {}
    /\ pmoved = << >>
    /\ pcall = NoPoolCall

\* a send that has not begun
NoRun == [job |-> 0, retry |-> 0, tries |-> 0, last |-> "none", fin |-> FALSE,
          status |-> "none"]

\* a job not yet handed to the publisher
NoPubJob == [path |-> "none", ret |-> "none", cbs |-> 0]

PubInit0 ==
    /\ ps = [alive |-> FALSE, retry_cnt |-> 0, nb_jobs_snd |-> 0, lock |-> 0]
    /\ pmq = << >>
    /\ pw = [pc |-> "wait", job |-> 0]
    /\ pd = "idle"
    /\ pjs = [j \in 1 .. MaxPubJobs |-> NoPubJob]
    /\ prun = [async |-> NoRun, sync |-> NoRun]
    /\ plog = [acc |-> << >>, done |-> << >>, late |-> FALSE, uaf |-> FALSE]

\* the worker waits in msg_receive; nobody is inside _ltb_dispatch_sync
NoSyncCall == [unit |-> NoUnit, pc |-> "idle", lock |-> "free"]
NoFile == [inst |-> 0, fid |-> 0]
WorkerIdle == [pc |-> "recv", ret |-> "done", arg |-> 0, ff |-> NoFile]

DispInit ==
    /\ dw = WorkerIdle
    /\ dcall = [p \in {1, 2} |-> NoSyncCall]
    /\ dinst = [i \in LtbIds |-> "none"]

Init ==
    /\ LtbInit
    /\ PoolInit
    /\ PubInit0
    /\ DispInit
    /\ lc = "none"
    /\ constructed = FALSE
    /\ rs = ZeroRs
    /\ op = "none"
    /\ res = Ok
    /\ rec0 = ZeroRec
    /\ rec = ZeroRec
    /\ out0 = NoBuf
    /\ out = NoBuf
    /\ envelope = NoEnvelope
    /\ same = TRUE
    /\ expect = [on |-> FALSE, recs |-> << >>]
    /\ freed = {}
    /\ run = [fresh |-> FALSE, recs |-> << >>]
    /\ valid0 = FALSE
    /\ len0 = 0
    /\ pending = << >>
    /\ drain = 0
    /\ nput = 0
    /\ lg = [created |-> FALSE, encbuf_size |-> 0]
    /\ lk = [owner |-> 0, req |-> "none"]
    /\ handed = << >>
    /\ accepted = << >>
    /\ lfreed = << >>
    /\ regime = TRUE
    /\ full0 = FALSE
    /\ nflush = 0

\* while (!(len & 0x1)) len >>= 1, for len > 0
RECURSIVE ShiftOutZeros(_)
ShiftOutZeros(len) == IF len % 2 = 0 THEN ShiftOutZeros(len \div 2) ELSE len

\* len_limit is a power of two
IsPow2(n) == ShiftOutZeros(n) = 1

\* recser_init(rs, init): the return value and the recser_t after the call;
\* alloc tells which allocation fails: "none", "base" or "ring"
recser_init(s, b, len_limit, base, alloc) ==
    IF b.ptr = NULL THEN [ret |-> EINVAL, rs |-> s]
    ELSE IF len_limit = 0 THEN [ret |-> EINVAL, rs |-> s]
    ELSE IF b.len < ARRAY_MAX_BYTES THEN [ret |-> ENOSPC, rs |-> s]
    ELSE IF ~IsPow2(len_limit) THEN [ret |-> EINVAL, rs |-> s]
    ELSE IF base # NULL /\ alloc = "base" THEN [ret |-> ENOMEM, rs |-> ZeroRs]
    ELSE IF alloc = "ring" THEN [ret |-> ENOMEM, rs |-> [ZeroRs EXCEPT !.base = base]]
    ELSE [ret |-> Ok,
          rs |-> [buf |-> b,
                  cb |-> peekcb_init(len_limit),
                  enc |-> senml_enc_init(NULL, SimSize(b.len), base).enc,
                  fit_cnt |-> 0,
                  base |-> base]]

RecserInit(b, len_limit, base, alloc) ==
    \E r \in {recser_init(rs, b, len_limit, base, alloc)} :
        /\ ~constructed
        /\ drain = 0
        /\ constructed' = (r.ret = Ok)
        /\ rs' = r.rs
        /\ same' = (rs' = rs)
        /\ valid0' = (rs.buf.ptr # NULL)
        /\ len0' = rs.buf.len
        /\ op' = "init"
        /\ res' = r.ret
        /\ run' = [fresh |-> r.ret = Ok, recs |-> << >>]
        /\ rec0' = ZeroRec /\ rec' = ZeroRec /\ out0' = NoBuf /\ out' = NoBuf
        /\ freed' = {}
        /\ UNCHANGED << envelope, expect, pending, drain, nput, nonser >>

\* PutQueue that does not move the record back before return -ENOBUFS
PutQueue_NoMoveBack(s, nrec, p) ==
    IF p.ret = ENOSPC
    THEN IF s.fit_cnt = 0
         THEN \* Buffer cannot fit even one record
              [ret |-> ENOBUFS, rs |-> [s EXCEPT !.enc = p.enc], rec |-> record_move(nrec)[2]]
         ELSE [ret |-> EAGAIN,
               rs |-> [s EXCEPT !.enc = p.enc, !.cb = peekcb_put(s.cb, nrec).cb],
               rec |-> record_move(nrec)[2]]
    ELSE IF p.ret # Ok
    THEN [ret |-> EINVAL, rs |-> [s EXCEPT !.enc = p.enc], rec |-> record_move(nrec)[1]]
    ELSE [ret |-> Ok,
          rs |-> [s EXCEPT !.enc = p.enc, !.cb = peekcb_put(s.cb, nrec).cb,
                           !.fit_cnt = @ + 1],
          rec |-> record_move(nrec)[2]]

\* recser_put after the ring was found not full and senml_enc_put of the
\* moved record nrec returned p
PutQueue(s, nrec, p) ==
    IF p.ret = ENOSPC
    THEN IF s.fit_cnt = 0
         THEN \* Buffer cannot fit even one record
              [ret |-> ENOBUFS, rs |-> [s EXCEPT !.enc = p.enc], rec |-> record_move(nrec)[1]]
         ELSE [ret |-> EAGAIN,
               rs |-> [s EXCEPT !.enc = p.enc, !.cb = peekcb_put(s.cb, nrec).cb],
               rec |-> record_move(nrec)[2]]
    ELSE IF p.ret # Ok
    THEN [ret |-> EINVAL, rs |-> [s EXCEPT !.enc = p.enc], rec |-> record_move(nrec)[1]]
    ELSE [ret |-> Ok,
          rs |-> [s EXCEPT !.enc = p.enc, !.cb = peekcb_put(s.cb, nrec).cb,
                           !.fit_cnt = @ + 1],
          rec |-> record_move(nrec)[2]]

\* recser_put that does not look at rs->buf.ptr
recser_put_NoPtrCheck(s, r) ==
    IF peekcb_fill(s.cb) = s.cb.len
    THEN [ret |-> ENOSPC, rs |-> s, rec |-> record_move(record_move(r)[1])[1]]
    ELSE The({ PutQueue(s, record_move(r)[1], p) :
               p \in {senml_enc_put(s.enc, record_move(r)[1])} })

\* recser_put that tests the ring only after senml_enc_put, and on a full
\* ring does not move the record back
recser_put_FullTestLate(s, r) ==
    IF s.buf.ptr = NULL THEN [ret |-> EINVAL, rs |-> s, rec |-> r]
    ELSE The({ IF peekcb_fill(s.cb) = s.cb.len
               THEN [ret |-> ENOSPC, rs |-> [s EXCEPT !.enc = p.enc],
                     rec |-> record_move(r)[2]]
               ELSE PutQueue(s, record_move(r)[1], p) :
               p \in {senml_enc_put(s.enc, record_move(r)[1])} })

\* recser_put(rs, rec): the return value, the recser_t and the caller's
\* record after the call
recser_put(s, r) ==
    IF s.buf.ptr = NULL THEN [ret |-> EINVAL, rs |-> s, rec |-> r]
    ELSE IF peekcb_fill(s.cb) = s.cb.len
    THEN [ret |-> ENOSPC, rs |-> s, rec |-> record_move(record_move(r)[1])[1]]
    ELSE The({ PutQueue(s, record_move(r)[1], p) :
               p \in {senml_enc_put(s.enc, record_move(r)[1])} })

RecserPut(sh) ==
    \E r \in {MkRec(sh, nput + 1)} : \E c \in {recser_put(rs, r)} :
        /\ constructed
        /\ nput < MaxPuts
        /\ drain = 0
        /\ nput' = nput + 1
        /\ rs' = c.rs
        /\ same' = (rs' = rs)
        /\ valid0' = (rs.buf.ptr # NULL)
        /\ len0' = rs.buf.len
        /\ op' = "put"
        /\ res' = c.ret
        /\ rec0' = r
        /\ rec' = c.rec
        /\ out0' = NoBuf /\ out' = NoBuf
        /\ run' = IF c.ret = Ok THEN [run EXCEPT !.recs = Append(@, r)]
                  ELSE [fresh |-> FALSE, recs |-> << >>]
        /\ envelope' = NoEnvelope
        /\ expect' = [on |-> FALSE, recs |-> << >>]
        /\ freed' = {}
        /\ pending' = IF c.ret \in {Ok, EAGAIN} THEN Append(pending, r) ELSE pending
        /\ UNCHANGED << constructed, drain, nonser >>

\* (size_t) of a negative error value
NegSize(e) == SizeMod - (IF e = EINVAL THEN 22 ELSE 1)

\* SwapCommit that leaves fit_cnt as it was after the flush
SwapCommit_KeepFitCnt(s, garbage) ==
    IF s.fit_cnt > 0
    THEN The({ The({ [rs |-> [s EXCEPT !.cb = fl.cb, !.enc = fl.enc],
                      enc_len |-> IF cl.defined THEN cl.len ELSE garbage,
                      envelope |-> [commit |-> TRUE,
                                    fit |-> s.fit_cnt,
                                    recs |-> fl.enc.recs,
                                    flushed |-> IF fl.ret = Ok THEN fl.flushed ELSE -1,
                                    closed |-> cl.ret = Ok,
                                    removed |-> SubSeq(RingRecs(s.cb), 1,
                                                       peekcb_fill(s.cb) - peekcb_fill(fl.cb))],
                      freed |-> fl.freed] :
                     cl \in {senml_enc_close(fl.enc)} }) :
               fl \in {_recser_flush(
                          [s EXCEPT !.enc = senml_enc_init(s.buf.ptr, s.buf.len, s.base).enc],
                          s.fit_cnt)} })
    ELSE [rs |-> s, enc_len |-> 0, envelope |-> NoEnvelope, freed |-> {}]

\* the first part of recser_swap: the records that fit are encoded into the
\* current buffer and the envelope is closed; garbage is the value read from
\* enc_len when senml_enc_close left it without a defined value
SwapCommit(s, garbage) ==
    IF s.fit_cnt > 0
    THEN The({ The({ [rs |-> [s EXCEPT !.cb = fl.cb, !.enc = fl.enc, !.fit_cnt = 0],
                      enc_len |-> IF cl.defined THEN cl.len ELSE garbage,
                      envelope |-> [commit |-> TRUE,
                                    fit |-> s.fit_cnt,
                                    recs |-> fl.enc.recs,
                                    flushed |-> IF fl.ret = Ok THEN fl.flushed ELSE -1,
                                    closed |-> cl.ret = Ok,
                                    removed |-> SubSeq(RingRecs(s.cb), 1,
                                                       peekcb_fill(s.cb) - peekcb_fill(fl.cb))],
                      freed |-> fl.freed] :
                     cl \in {senml_enc_close(fl.enc)} }) :
               fl \in {_recser_flush(
                          [s EXCEPT !.enc = senml_enc_init(s.buf.ptr, s.buf.len, s.base).enc],
                          s.fit_cnt)} })
    ELSE [rs |-> s, enc_len |-> 0, envelope |-> NoEnvelope, freed |-> {}]

\* the second part of recser_swap, after the commit c: the buffers are
\* exchanged and the encoder is prepared for the new buffer o
SwapInstall(c, o) ==
    IF o.ptr = NULL
    THEN \* Input buffer NULL invalidates the serializer
         The({ [ret |-> Ok,
                rs |-> [c.rs EXCEPT !.buf = o, !.cb = f3.cb, !.enc = f3.enc, !.fit_cnt = 0],
                out |-> [ptr |-> c.rs.buf.ptr, len |-> c.enc_len],
                envelope |-> c.envelope,
                freed |-> c.freed \cup f3.freed] :
               f3 \in {_recser_flush(
                          [c.rs EXCEPT !.buf = o,
                                       !.enc = senml_enc_init(NULL, InvalidateSimSize, c.rs.base).enc],
                          peekcb_fill(c.rs.cb))} })
    ELSE IF peekcb_fill(c.rs.cb) # 0
    THEN \* simulate how many of the remaining records fit in the new buffer
         The({ [ret |-> EAGAIN,
                rs |-> [c.rs EXCEPT !.buf = o, !.enc = sim.enc,
                                    !.fit_cnt = IF sim.ret = Ok THEN sim.flushed
                                                ELSE NegSize(sim.ret)],
                out |-> [ptr |-> c.rs.buf.ptr, len |-> c.enc_len],
                envelope |-> c.envelope,
                freed |-> c.freed] :
               sim \in {_recser_flush_simulate(
                           [c.rs EXCEPT !.buf = o,
                                        !.enc = senml_enc_init(NULL, SimSize(o.len), c.rs.base).enc],
                           peekcb_fill(c.rs.cb))} })
    ELSE [ret |-> Ok,
          rs |-> [c.rs EXCEPT !.buf = o,
                              !.enc = senml_enc_init(NULL, SimSize(o.len), c.rs.base).enc],
          out |-> [ptr |-> c.rs.buf.ptr, len |-> c.enc_len],
          envelope |-> c.envelope,
          freed |-> c.freed]

\* recser_swap(rs, out): the return value, the recser_t and the caller's
\* descriptor after the call, what was encoded into the buffer handed back
\* and the pointers freed
recser_swap(s, o, garbage) ==
    IF s.buf.ptr = NULL
    THEN [ret |-> EINVAL, rs |-> s, out |-> o, envelope |-> NoEnvelope, freed |-> {}]
    ELSE The({ SwapInstall(c, o) : c \in {SwapCommit(s, garbage)} })

\* the values enc_len may hold when recser_swap reads it: it is read without
\* having been given a value when the encoding of the envelope failed
EncLenGarbage(s) ==
    IF s.buf.ptr # NULL /\ s.fit_cnt > 0
       /\ ~senml_enc_close(_recser_flush(
               [s EXCEPT !.enc = senml_enc_init(s.buf.ptr, s.buf.len, s.base).enc],
               s.fit_cnt).enc).defined
    THEN GarbageLens ELSE {0}

\* a buffer the caller allocates is none of the live ones
FreshPtr(s) == IF s.buf.ptr = 1 THEN 2 ELSE 1

\* the caller calls recser_swap(rs, &o)
SwapCall(o, garbage) ==
    \E c \in {recser_swap(rs, o, garbage)} :
        /\ constructed
        /\ pending' = IF c.ret = EINVAL THEN pending
                       ELSE IF o.ptr = NULL THEN << >>
                       ELSE IF c.envelope.closed
                               /\ Len(c.envelope.recs) <= Len(pending)
                               /\ c.envelope.recs = SubSeq(pending, 1, Len(c.envelope.recs))
                       THEN SubSeq(pending, Len(c.envelope.recs) + 1, Len(pending))
                       ELSE pending
        /\ rs' = c.rs
        /\ same' = (rs' = rs)
        /\ valid0' = (rs.buf.ptr # NULL)
        /\ len0' = rs.buf.len
        /\ op' = "swap"
        /\ res' = c.ret
        /\ out0' = o
        /\ out' = c.out
        /\ rec0' = ZeroRec /\ rec' = ZeroRec
        /\ envelope' = c.envelope
        /\ expect' = [on |-> run.fresh /\ c.ret # EINVAL, recs |-> run.recs]
        /\ freed' = c.freed
        /\ run' = [fresh |-> c.ret = Ok /\ c.rs.buf.ptr # NULL, recs |-> << >>]
        /\ UNCHANGED << constructed, nput, nonser >>

RecserSwap(o, garbage) ==
    /\ drain = 0
    /\ SwapCall(o, garbage)
    /\ UNCHANGED drain

Next ==
    \/ \E len \in InitBufLens, ptr \in {NULL, 1}, ll \in LenLimits, base \in BaseNames,
          alloc \in {"none", "base", "ring"} :
          RecserInit([ptr |-> ptr, len |-> len], ll, base, alloc)
    \/ \E sh \in Shapes : RecserPut(sh)
    \/ \E len \in SwapBufLens, g \in EncLenGarbage(rs) :
          RecserSwap([ptr |-> FreshPtr(rs), len |-> len], g)
    \/ \E g \in EncLenGarbage(rs) : RecserSwap([ptr |-> NULL, len |-> 0], g)

Spec == Init /\ [][Next]_vars

(***************************************************************************)
(* The caller that, once recser_swap has returned -EAGAIN for a buffer of   *)
(* the size of the one it replaced, does nothing but repeat recser_swap    *)
(* with fresh buffers of that size, and keeps doing so.                    *)
(***************************************************************************)
StartDrain ==
    /\ drain = 0
    /\ op = "swap" /\ res = EAGAIN
    /\ rs.buf.len = len0
    /\ drain' = rs.buf.len
    /\ UNCHANGED << constructed, rs, op, res, rec0, rec, out0, out, envelope, same, expect,
                    freed, run, valid0, len0, pending, nput, nonser >>

DrainSwap ==
    /\ drain # 0
    /\ \E g \in EncLenGarbage(rs) : SwapCall([ptr |-> FreshPtr(rs), len |-> drain], g)
    /\ UNCHANGED drain

NextDrain == Next \/ StartDrain \/ DrainSwap

DrainSpec == Init /\ [][NextDrain]_vars /\ WF_vars(DrainSwap)

(***************************************************************************)
(* Properties of the serializer.                                           *)
(***************************************************************************)
\* the serializer holds a buffer
Valid == constructed /\ rs.buf.ptr # NULL

\* C1: on a valid serializer, after any sequence of recser_init, recser_put
\* and recser_swap, fit_cnt is at most the number of records queued in the
\* ring (wi - ri)
C1_FitCountAtMostFill == Valid => rs.fit_cnt <= peekcb_fill(rs.cb)

\* C1: a swap has left records queued of which only some fit the new buffer
C1_Witness ==
    Valid /\ op = "swap" /\ rs.fit_cnt > 0 /\ rs.fit_cnt < peekcb_fill(rs.cb)

\* C2: whenever recser_swap commits, _recser_flush encodes all fit_cnt
\* records into the real buffer and senml_enc_close succeeds
C2_CommitNeverNoSpace ==
    (op = "swap" /\ envelope.commit) =>
        (envelope.flushed = envelope.fit /\ envelope.closed)

\* C3: a swap that follows puts which all returned Ok, on a freshly
\* initialised or freshly swapped-empty serializer, hands back a closed
\* envelope holding exactly those records, in the order of the puts
C3_EnvelopeHoldsOkPuts ==
    (op = "swap" /\ expect.on) =>
        (envelope.recs = expect.recs /\ (expect.recs # << >> => envelope.closed))

\* the number of records at the ring head that a fresh simulation against
\* the current buffer accepts
LongestPrefix(s) ==
    _recser_flush_simulate(
        [s EXCEPT !.enc = senml_enc_init(NULL, SimSize(s.buf.len), s.base).enc],
        peekcb_fill(s.cb)).flushed

\* C4: after every recser_put and every non-invalidating recser_swap fit_cnt
\* is the length of the longest prefix of the ring the simulated encoder
\* accepts for the current buffer
C4_FitCountIsLongestPrefix ==
    (Valid /\ op \in {"put", "swap"}) => rs.fit_cnt = LongestPrefix(rs)

C6_RingHoldsPending == Valid => RingRecs(rs.cb) = pending

\* C7: once recser_swap has returned -EAGAIN, repeating swap with buffers
\* of the same size empties the ring
C7_SwapDrainsRing == (drain # 0) ~> (peekcb_fill(rs.cb) = 0)

\* C8: every recser_swap that returns 0 or -EAGAIN hands back a complete,
\* closed envelope (of length 0 when no record was encoded)
C8_SwapYieldsClosedEnvelope ==
    (op = "swap" /\ res \in {Ok, EAGAIN}) =>
        IF envelope.commit
        THEN envelope.closed /\ envelope.recs = envelope.removed
        ELSE out.len = 0

FitsEmptyBuffer(s, r) ==
    senml_enc_put(senml_enc_init(NULL, SimSize(s.buf.len), s.base).enc, r).ret = Ok

\* C10: a record that would fit an empty buffer of the current size is
\* never answered with -ENOBUFS
C10_NoBuffersOnlyIfRecordTooBig ==
    (op = "put" /\ res = ENOBUFS) => ~FitsEmptyBuffer(rs, rec0)

(***************************************************************************)
(* The logger (logging.c): a record stream that copies each record into    *)
(* its serializer rs and hands every envelope the serializer emits to a    *)
(* transfer driver.  The stream mutex lk is taken by recstr_put around     *)
(* every put and flush.                                                    *)
(***************************************************************************)
\* the pointer strdup returns for the caller's string p
CopyPtr(p) == p + MaxPuts + 1

\* record_copy(to, from): ok tells whether strdup succeeds
record_copy(from, ok) ==
    IF from.type = RECORDTYPE_STRING
    THEN IF ok THEN [ret |-> Ok, to |-> [from EXCEPT !.str = CopyPtr(from.str)]]
         ELSE [ret |-> ENOMEM, to |-> [from EXCEPT !.str = NULL]]
    ELSE [ret |-> Ok, to |-> from]

\* record_freedata(rec): the record after the call and the pointers handed
\* to free(); str shares its storage with the integer value
record_freedata(r) ==
    [rec |-> [r EXCEPT !.str = NULL,
                       !.val = IF r.type = RECORDTYPE_STRING THEN @ ELSE 0],
     freed |-> IF r.type = RECORDTYPE_STRING /\ r.str # NULL THEN << r.str >> ELSE << >>]

\* what happens to a buffer given to _logg_send_buffer: the driver accepts
\* the job, the driver refuses it, vstorfile_open fails, calloc of the job
\* fails
SendOutcomes == {"sent", "wouldblock", "openfail", "nojob"}

\* _logg_send_buffer(logger, ub): the return value, the descriptor after the
\* call and whether the driver's trysend accepted the job
_logg_send_buffer(ub, snd) ==
    IF ub.len = 0 THEN [ret |-> Ok, ub |-> ub, sent |-> FALSE]
    ELSE IF snd = "openfail" THEN [ret |-> ENOMEM, ub |-> [ub EXCEPT !.ptr = NULL], sent |-> FALSE]
    ELSE IF snd = "nojob" THEN [ret |-> ENOMEM, ub |-> [ub EXCEPT !.ptr = NULL], sent |-> FALSE]
    ELSE IF snd = "wouldblock"
    THEN [ret |-> EWOULDBLOCK, ub |-> [ub EXCEPT !.ptr = NULL], sent |-> FALSE]
    ELSE [ret |-> Ok, ub |-> [ub EXCEPT !.ptr = NULL], sent |-> TRUE]

\* the elements of a set of pointers, in some order
RECURSIVE SetToSeq(_)
SetToSeq(S) ==
    IF S = {} THEN << >>
    ELSE The({ << x >> \o SetToSeq(S \ {x}) : x \in {CHOOSE y \in S : TRUE} })

\* the envelope the driver received, if any
Handover(sw, sb) == IF sb.sent THEN << sw.envelope.recs >> ELSE << >>

\* _logg_put after the swap sw and the hand-over: when the queue was full
\* the record nrec is put again
LoggPutRetry(put_res, sw, nrec) ==
    IF put_res = ENOSPC
    THEN The({ [ret |-> IF p2.ret # EAGAIN THEN p2.ret ELSE Ok, rs |-> p2.rs, nrec |-> p2.rec] :
               p2 \in {recser_put(sw.rs, nrec)} })
    ELSE [ret |-> Ok, rs |-> sw.rs, nrec |-> nrec]

\* the case -EAGAIN / -ENOSPC of _logg_put if it returned the error of
\* _logg_send_buffer
LoggPutSwap_SendError(p1, encbuf, in, garbage) ==
    IF ~in.malloc
    THEN [ret |-> ENOMEM, rs |-> p1.rs, nrec |-> p1.rec, freed |-> << >>, handed |-> << >>]
    ELSE The({ IF sw.ret # Ok /\ sw.ret # EAGAIN
               THEN [ret |-> sw.ret, rs |-> sw.rs, nrec |-> p1.rec, freed |-> << >>,
                     handed |-> << >>]
               ELSE The({ IF sb.ret # Ok
                          THEN [ret |-> sb.ret, rs |-> sw.rs, nrec |-> p1.rec,
                                freed |-> SetToSeq(sw.freed), handed |-> << >>]
                          ELSE The({ [ret |-> rt.ret, rs |-> rt.rs, nrec |-> rt.nrec,
                                      freed |-> SetToSeq(sw.freed),
                                      handed |-> Handover(sw, sb)] :
                                     rt \in {LoggPutRetry(p1.ret, sw, p1.rec)} }) :
                          sb \in {_logg_send_buffer(sw.out, in.snd)} }) :
               sw \in {recser_swap(p1.rs, [ptr |-> FreshPtr(p1.rs), len |-> encbuf], garbage)} })

\* the case -EAGAIN / -ENOSPC of _logg_put: p1 is the result of the first
\* recser_put
LoggPutSwap(p1, encbuf, in, garbage) ==
    IF ~in.malloc
    THEN [ret |-> ENOMEM, rs |-> p1.rs, nrec |-> p1.rec, freed |-> << >>, handed |-> << >>]
    ELSE The({ IF sw.ret # Ok /\ sw.ret # EAGAIN
               THEN [ret |-> sw.ret, rs |-> sw.rs, nrec |-> p1.rec, freed |-> << >>,
                     handed |-> << >>]
               ELSE The({ The({ [ret |-> rt.ret, rs |-> rt.rs, nrec |-> rt.nrec,
                                 freed |-> SetToSeq(sw.freed),
                                 handed |-> Handover(sw, sb)] :
                                rt \in {LoggPutRetry(p1.ret, sw, p1.rec)} }) :
                          sb \in {_logg_send_buffer(sw.out, in.snd)} }) :
               sw \in {recser_swap(p1.rs, [ptr |-> FreshPtr(p1.rs), len |-> encbuf], garbage)} })

\* _logg_put from the switch on: the return value, the serializer and nrec
\* before the cleanup, the pointers the serializer freed and the envelope
\* handed over
LoggPutSwitch(p1, encbuf, in, garbage) ==
    IF p1.ret \in {EAGAIN, ENOSPC}
    THEN LoggPutSwap(p1, encbuf, in, garbage)
    ELSE [ret |-> p1.ret, rs |-> p1.rs, nrec |-> p1.rec, freed |-> << >>, handed |-> << >>]

\* Only release the original record data on success
LoggRelease_Always(retval, r) == record_freedata(r)

LoggRelease(retval, r) ==
    IF retval = Ok THEN record_freedata(r) ELSE [rec |-> r, freed |-> << >>]

\* the cleanup at the end of _logg_put
LoggPutEnd(x, r) ==
    The({ [ret |-> x.ret, rs |-> x.rs, rec |-> rl.rec,
           freed |-> x.freed \o record_freedata(x.nrec).freed \o rl.freed,
           handed |-> x.handed] :
          rl \in {LoggRelease(x.ret, r)} })

\* _logg_put(rstr, rec) for rec != NULL: in holds what the allocations and
\* the driver do, garbage the value of an undefined enc_len
_logg_put(s, encbuf, r, in, garbage) ==
    The({ IF cp.ret # Ok
          THEN [ret |-> cp.ret, rs |-> s, rec |-> r, freed |-> << >>, handed |-> << >>]
          ELSE The({ LoggPutEnd(LoggPutSwitch(p1, encbuf, in, garbage), r) :
                     p1 \in {recser_put(s, cp.to)} }) :
          cp \in {record_copy(r, in.copy)} })

\* the value _logg_flush returns when malloc fails (res = ENOMEM, not negated)
PosENOMEM == "+ENOMEM"

\* one pass of the do-while loop of _logg_flush: the value of res after it,
\* whether the loop goes on, the serializer, the pointers freed and the
\* envelope handed over
LoggFlushPass(s, encbuf, in, garbage) ==
    IF ~in.malloc
    THEN [res |-> PosENOMEM, again |-> FALSE, rs |-> s, freed |-> << >>, handed |-> << >>]
    ELSE The({ IF sw.ret = EAGAIN \/ sw.ret = Ok
               THEN The({ [res |-> sw.ret,
                           again |-> sb.ret = Ok /\ sw.ret = EAGAIN,
                           rs |-> sw.rs,
                           freed |-> SetToSeq(sw.freed),
                           handed |-> Handover(sw, sb)] :
                          sb \in {_logg_send_buffer(sw.out, in.snd)} })
               ELSE [res |-> sw.ret, again |-> FALSE, rs |-> sw.rs, freed |-> << >>,
                     handed |-> << >>] :
               sw \in {recser_swap(s, [ptr |-> FreshPtr(s), len |-> encbuf], garbage)} })

\* the inputs of the logger's caller and what its environment does
Producers == {1, 2}
LoggBufLens == {3, 40, 64}
LoggQueues == {2, 4}
LoggAllocs == {"none", "logger", "buf", "base", "ring"}
\* what the platform does during one call: strdup in record_copy fails (the
\* call ends there), or malloc of the swap buffer fails (nothing is sent), or
\* both succeed and transdrv_trysend ends in one of its outcomes
LoggEnv ==
    { [copy |-> FALSE, malloc |-> TRUE, snd |-> "sent"],
      [copy |-> TRUE, malloc |-> FALSE, snd |-> "sent"] }
    \cup { [copy |-> TRUE, malloc |-> TRUE, snd |-> o] : o \in SendOutcomes }

\* logg_create(init, &log)
LoggCreate(encbuf, queue, base, alloc) ==
    \E r \in {IF alloc \in {"logger", "buf"} THEN [ret |-> ENOMEM, rs |-> rs]
              ELSE recser_init(ZeroRs, [ptr |-> 1, len |-> encbuf], queue, base, alloc)} :
        /\ ~lg.created
        /\ lg' = [created |-> r.ret = Ok, encbuf_size |-> IF r.ret = Ok THEN encbuf ELSE 0]
        /\ rs' = IF r.ret = Ok THEN r.rs ELSE rs
        /\ op' = "logg_create"
        /\ res' = r.ret
        /\ UNCHANGED << constructed, rec0, rec, out0, out, envelope, same, expect, freed, run,
                        valid0, len0, pending, drain, nput, lk, handed, accepted, lfreed,
                        regime, full0, nflush, bvars, xvars >>

\* recstr_put(rs, rec): mutex_lock(&rs->lock) by producer p, for a put of a
\* record or (rec = NULL) for a flush
LoggLock(p, req) ==
    /\ lg.created
    /\ lk.owner = 0
    /\ req = "put" => nput < MaxPuts
    /\ req = "flush" => nflush < MaxFlush
    /\ nflush' = IF req = "flush" THEN nflush + 1 ELSE nflush
    /\ lk' = [owner |-> p, req |-> req]
    /\ UNCHANGED << svars, lg, handed, accepted, lfreed, regime, full0, bvars, xvars >>

\* the records a producer may pass: a new one, or again the one whose put
\* has just failed and which therefore still is the producer's
LoggRecords ==
    { MkRec(sh, nput + 1) : sh \in Shapes }
    \cup (IF op = "logg_put" /\ res # Ok THEN {rec} ELSE {})

\* _logg_put(rstr, rec) with rec != NULL, and mutex_unlock
LoggPut(r, in) ==
    /\ lk.owner # 0 /\ lk.req = "put"
    /\ \E g \in EncLenGarbage(recser_put(rs, record_copy(r, in.copy).to).rs) :
       \E c \in {_logg_put(rs, lg.encbuf_size, r, in, g)} :
        /\ nput' = nput + 1
        /\ rs' = c.rs
        /\ op' = "logg_put"
        /\ res' = c.ret
        /\ rec0' = r
        /\ rec' = c.rec
        /\ lfreed' = c.freed
        /\ handed' = handed \o c.handed
        /\ accepted' = IF c.ret = Ok THEN Append(accepted, r.ts) ELSE accepted
        /\ regime' = (regime /\ in.copy /\ in.malloc /\ in.snd = "wouldblock")
        /\ full0' = (peekcb_fill(rs.cb) = rs.cb.len)
        /\ lk' = [owner |-> 0, req |-> "none"]
        /\ UNCHANGED << constructed, out0, out, envelope, same, expect, freed, run, valid0,
                        len0, pending, drain, lg, nflush, bvars, xvars >>

\* one pass of the loop of _logg_flush (recstr_put with rec = NULL); the
\* mutex is released when the loop is left
LoggFlushStep(in) ==
    /\ lk.owner # 0 /\ lk.req = "flush"
    /\ in.copy
    /\ \E g \in EncLenGarbage(rs) :
       \E c \in {LoggFlushPass(rs, lg.encbuf_size, in, g)} :
        /\ rs' = c.rs
        /\ op' = "logg_flush"
        /\ res' = c.res
        /\ lfreed' = c.freed
        /\ handed' = handed \o c.handed
        /\ regime' = (regime /\ in.malloc /\ in.snd = "wouldblock")
        /\ lk' = IF c.again THEN lk ELSE [owner |-> 0, req |-> "none"]
        /\ UNCHANGED << constructed, rec0, rec, out0, out, envelope, same, expect, freed, run,
                        valid0, len0, pending, drain, nput, lg, accepted, full0, nflush,
                        bvars, xvars >>

LoggNext ==
    \/ \E encbuf \in LoggBufLens, queue \in LoggQueues, base \in BaseNames,
          alloc \in LoggAllocs : LoggCreate(encbuf, queue, base, alloc)
    \/ \E p \in Producers, req \in {"put", "flush"} : LoggLock(p, req)
    \/ \E r \in LoggRecords, in \in LoggEnv : LoggPut(r, in)
    \/ \E in \in LoggEnv : LoggFlushStep(in)

LoggSpec == Init /\ [][LoggNext]_vars

(***************************************************************************)
(* Properties of the logger.                                               *)
(***************************************************************************)
\* how often the last logger call handed pointer p to free()
FreeCount(p) == Cardinality({ i \in DOMAIN lfreed : lfreed[i] = p })

\* C11: a logger put that returns non-zero has left the caller's record as
\* it was and has not freed its string; a put that returns zero has freed
\* the caller's string exactly once.
C11_FailedPutKeepsRecord ==
    op = "logg_put" =>
        /\ res # Ok => rec = rec0 /\ (rec0.str # NULL => FreeCount(rec0.str) = 0)
        /\ (res = Ok /\ rec0.type = RECORDTYPE_STRING) =>
               rec.str = NULL /\ FreeCount(rec0.str) = 1

\* a put of a string record failed after its copy had been made, and the
\* copy was released
C11_Witness ==
    /\ op = "logg_put" /\ res # Ok /\ rec0.type = RECORDTYPE_STRING
    /\ FreeCount(CopyPtr(rec0.str)) = 1

\* the records of a sequence of envelopes, concatenated
RECURSIVE Flatten(_)
Flatten(envs) == IF envs = << >> THEN << >> ELSE Head(envs) \o Flatten(Tail(envs))

\* the timestamps (the identities) of the records handed to the driver
HandedTs == [i \in DOMAIN Flatten(handed) |-> Flatten(handed)[i].ts]

\* the place of the put that accepted record t, 0 if none did
PutPlace(t) ==
    IF \E i \in DOMAIN accepted : accepted[i] = t
    THEN CHOOSE i \in DOMAIN accepted : accepted[i] = t
    ELSE 0

\* C12: the records in the envelopes handed to the driver, concatenated in
\* hand-off order, are in the order of the puts that accepted them, and no
\* record appears twice.
C12_OrderPreserved ==
    \A i, j \in DOMAIN HandedTs :
        i < j => /\ HandedTs[i] # HandedTs[j]
                 /\ (PutPlace(HandedTs[i]) # 0 /\ PutPlace(HandedTs[j]) # 0)
                        => PutPlace(HandedTs[i]) < PutPlace(HandedTs[j])

\* the timestamps of the records queued in the ring
RingTs == { RingRecs(rs.cb)[k].ts : k \in DOMAIN RingRecs(rs.cb) }

\* C13: while every trysend returns -EWOULDBLOCK (and nothing else fails and
\* nobody flushes), every record a put accepted is still queued in the ring,
\* and a put issued when the ring is full returns -ENOSPC.
C13_QueuedUntilNoSpace ==
    (regime /\ nflush = 0 /\ op = "logg_put") =>
        /\ \A i \in DOMAIN accepted : accepted[i] \in RingTs
        /\ full0 => res = ENOSPC

(***************************************************************************)
(* The long-term buffer (ltb.c) on top of the data pool (data_pool.c).     *)
(* Every closure the dispatch worker runs is one step; sc holds the        *)
(* static variables and the queues while a closure works on them.          *)
(***************************************************************************)
LTB_QUEUE_MSGQUEUE_LEN == 4
EIO == "EIO"
FidMod == 2 ^ FidBits

Min(S) == CHOOSE x \in S : \A y \in S : x <= y
Max(S) == CHOOSE x \in S : \A y \in S : x >= y

\* the state a closure works on
Ctx ==
    [total |-> nb_files_total, publishing |-> publishing, lhead |-> lhead, pools |-> pools,
     mbox |-> mbox, wcur |-> wcur, jobs |-> jobs, forces |-> forces, gh |-> gh]

\* (size_t)n for a signed n
SizeCast(n) == n % SizeMod

\* msg_try_send(&msg, _ltb_queue): the message goes to the worker if it waits
\* in msg_receive, else into its queue if there is room; 1 if it was taken
msg_try_send(c, unit) ==
    IF c.wcur = NoUnit THEN [res |-> 1, c |-> [c EXCEPT !.wcur = unit]]
    ELSE IF Len(c.mbox) < LTB_QUEUE_MSGQUEUE_LEN
    THEN [res |-> 1, c |-> [c EXCEPT !.mbox = Append(@, unit)]]
    ELSE [res |-> 0, c |-> c]

\* _ltb_dispatch(cb, arg): unit is the closure and its argument
_ltb_dispatch(c, unit, malloc_ok) ==
    IF ~malloc_ok THEN [ret |-> ENOMEM, c |-> c]
    ELSE The({ IF m.res # 1 THEN [ret |-> EWOULDBLOCK, c |-> c] ELSE [ret |-> Ok, c |-> m.c] :
               m \in {msg_try_send(c, unit)} })

\* dpool_get_oldest_file(pooldir): the smallest id, -ENOENT for an empty
\* pool, the error of vfs_opendir / vfs_readdir when listing fails
dpool_get_oldest_file(pool, listing_ok) ==
    IF ~listing_ok THEN [res |-> EIO, fid |-> 0]
    ELSE IF pool = {} THEN [res |-> ENOENT, fid |-> 0]
    ELSE [res |-> Ok, fid |-> Min(pool)]

\* the loop of _ltb_get_first_file from instance list on; last is the result
\* of the last dpool_get_oldest_file, unlisted the instances whose pool
\* cannot be listed
RECURSIVE FirstFileFrom(_, _, _, _)
FirstFileFrom(c, list, last, unlisted) ==
    IF list = << >> THEN [res |-> last, inst |-> 0, fid |-> 0]
    ELSE IF ~ltbs[Head(list)].sender THEN FirstFileFrom(c, Tail(list), last, unlisted)
    ELSE The({ IF o.res # Ok THEN FirstFileFrom(c, Tail(list), o.res, unlisted)
               ELSE [res |-> Ok, inst |-> Head(list), fid |-> o.fid] :
               o \in {dpool_get_oldest_file(c.pools[Head(list)], Head(list) \notin unlisted)} })

_ltb_get_first_file(c, unlisted) == FirstFileFrom(c, c.lhead, ENOENT, unlisted)

\* the instances whose pool cannot be listed in a call of _ltb_publish
Unlisted(c, how) ==
    CASE how = "listfail" -> LtbIds
      [] how = "listfail_head" /\ c.lhead # << >> -> {Head(c.lhead)}
      [] OTHER -> {}

\* what may happen in one call of _ltb_publish: every step succeeds, listing
\* the pools fails, listing the pool of the instance at the head of the
\* registry fails, vfs_open fails, transdrv_send fails, vfs_unlink fails,
\* malloc in _ltb_dispatch fails
TickOutcomes ==
    {"ok", "listfail", "listfail_head", "openfail", "sendfail", "unlinkfail", "nomem"}

\* the next publish closure, dispatched with arg = NULL
TickUnit == [type |-> "tick", id |-> 0]

\* the conforming files in the pools of the registered instances
RECURSIVE StoredFrom(_, _)
StoredFrom(c, list) ==
    IF list = << >> THEN 0 ELSE Cardinality(c.pools[Head(list)]) + StoredFrom(c, Tail(list))

\* a publication begins: by force request k (forced) or by the publication
\* condition, for which _ext_cond returned ext
Begin(c, forced, k, ext) ==
    [c EXCEPT !.gh = [begun |-> TRUE, forced |-> forced, pub0 |-> c.publishing,
                      total0 |-> c.total, ext |-> ext, stored |-> StoredFrom(c, c.lhead),
                      owner |-> k, fault |-> FALSE, tick |-> NoTick, ended |-> NoEnd,
                      jobcb |-> c.gh.jobcb, evald |-> c.gh.evald, cbeval |-> c.gh.cbeval]]

\* the file a call of _ltb_publish selected and how far the call got with it
Tick(c, ff, how) ==
    [c EXCEPT !.gh.tick = [inst |-> ff.inst, fid |-> ff.fid, out |-> how, total0 |-> c.total],
              !.gh.fault = @ \/ how \notin {"ok", "nofile"}]

\* _publish_end: arg is the callback of the force request (0 for NULL)
PublishEnd(c, arg, r) ==
    [c EXCEPT !.forces = IF arg # 0 THEN [@ EXCEPT ![arg].cbs = @ + 1] ELSE @,
              !.publishing = FALSE,
              !.gh.ended = [on |-> TRUE, owner |-> c.gh.owner, arg |-> arg, res |-> r,
                            clean |-> ~c.gh.fault],
              !.gh.owner = 0]

\* vfs_unlink(fname) and the decrement of _nb_files_total
PublishUnlink(c, ff, unlink_ok) ==
    IF unlink_ok
    THEN [c EXCEPT !.pools[ff.inst] = @ \ {ff.fid}, !.total = @ - 1]
    ELSE c

\* the self-dispatch of the next call, with arg = NULL
PublishNext(c, arg, malloc_ok) ==
    The({ IF d.ret # Ok THEN PublishEnd([d.c EXCEPT !.gh.fault = TRUE], arg, d.ret) ELSE d.c :
          d \in {_ltb_dispatch(c, TickUnit, malloc_ok)} })

\* _ltb_publish(arg) with the unlink done before the result of transdrv_send
\* is tested
_ltb_publish_UnlinkFirst(c, arg, how) ==
    The({ The({ IF ff.res # Ok
                THEN PublishEnd(Tick(c1, ff, IF ff.res = ENOENT THEN "nofile" ELSE "listfail"),
                                arg, IF ff.res = ENOENT THEN Ok ELSE ff.res)
                ELSE IF how = "openfail"
                THEN PublishEnd(Tick(c1, ff, how), arg, EIO)
                ELSE IF how = "sendfail"
                THEN PublishEnd(PublishUnlink(Tick(c1, ff, how), ff, TRUE), arg, EIO)
                ELSE PublishNext(PublishUnlink(Tick(c1, ff, IF how = "unlinkfail" THEN how ELSE "ok"),
                                               ff, how # "unlinkfail"),
                                 arg, how # "nomem") :
                ff \in {_ltb_get_first_file(c1, Unlisted(c1, how))} }) :
          c1 \in {[c EXCEPT !.publishing = TRUE]} })

\* _ltb_publish(arg)
_ltb_publish(c, arg, how) ==
    The({ The({ IF ff.res # Ok
                THEN PublishEnd(Tick(c1, ff, IF ff.res = ENOENT THEN "nofile" ELSE "listfail"),
                                arg, IF ff.res = ENOENT THEN Ok ELSE ff.res)
                ELSE IF how \in {"openfail", "sendfail"}
                THEN PublishEnd(Tick(c1, ff, how), arg, EIO)
                ELSE PublishNext(PublishUnlink(Tick(c1, ff, IF how = "unlinkfail" THEN how ELSE "ok"),
                                               ff, how # "unlinkfail"),
                                 arg, how # "nomem") :
                ff \in {_ltb_get_first_file(c1, Unlisted(c1, how))} }) :
          c1 \in {[c EXCEPT !.publishing = TRUE]} })

\* _ltb_upd_pub_cond(ltb): ext_ret is what _ext_cond() returns if it is set
_ltb_upd_pub_cond(c, ext_ret, how) ==
    The({ IF ~c1.publishing
          THEN The({ IF SizeCast(c1.total) >= lt.lim /\ e
                     THEN _ltb_publish(Begin(c1, FALSE, 0, e), 0, how)
                     ELSE c1 :
                     e \in {IF lt.ext THEN ext_ret ELSE TRUE} })
          ELSE c1 :
          c1 \in {[c EXCEPT !.gh.evald = TRUE]} })

\* _force_publish(arg) without the test of _publishing
force_publish_Always(c, k, how) == _ltb_publish(Begin(c, TRUE, k, TRUE), k, how)

\* _force_publish(arg)
force_publish(c, k, how) ==
    IF ~c.publishing
    THEN _ltb_publish(Begin(c, TRUE, k, TRUE), k, how)
    ELSE [c EXCEPT !.forces[k].busy = TRUE]

\* dpool_size(pooldir): the number of conforming entries, negative on error
dpool_size(pool, listing_ok) == IF listing_ok THEN Cardinality(pool) ELSE -1

\* _add_ltb(ltb)
_add_ltb(c, i, listing_ok) ==
    The({ [c EXCEPT !.total = @ + (IF r < 0 THEN 0 ELSE r), !.lhead = << i >> \o @] :
          r \in {dpool_size(c.pools[i], listing_ok)} })

\* dpool_move_file(pooldir, name): the pool after the rename to newest + 1
dpool_move_file(pool) ==
    pool \cup {((IF pool = {} THEN 0 ELSE Max(pool)) + 1) % FidMod}

\* what may happen to the staging of an envelope: it is copied and renamed,
\* vfs_open fails, vfs_read / vfs_write fail, the rename fails
StageOutcomes == {"ok", "openfail", "copyfail", "movefail"}

\* _ltb_try_send_disp up to _try_send_cb_end
TrySendStage(c, i, stage) ==
    IF stage = "ok"
    THEN [c EXCEPT !.pools[i] = dpool_move_file(@), !.total = @ + 1]
    ELSE c

\* the completion callback of job j is invoked with status r; the job is
\* no longer queued for an instance
JobCb(c, j, r) ==
    [c EXCEPT !.jobs[j].cbs = @ + 1, !.jobs[j].inst = 0, !.gh.jobcb = r,
              !.gh.cbeval = c.gh.evald]

\* _ltb_try_send_disp(job) if it returned at a failure of the staging
\* instead of going to _try_send_cb_end
_ltb_try_send_disp_ReturnOnError(c, j, stage, ext_ret, how) ==
    IF stage = "ok"
    THEN The({ JobCb(c2, j, Ok) :
               c2 \in {_ltb_upd_pub_cond(TrySendStage(c, c.jobs[j].inst, stage), ext_ret, how)} })
    ELSE [c EXCEPT !.jobs[j].inst = 0]

\* _ltb_try_send_disp(job) if it invoked job->cb before _ltb_upd_pub_cond
_ltb_try_send_disp_CallbackFirst(c, j, stage, ext_ret, how) ==
    The({ _ltb_upd_pub_cond(c2, ext_ret, how) :
          c2 \in {JobCb(TrySendStage(c, c.jobs[j].inst, stage), j,
                        IF stage = "ok" THEN Ok ELSE EIO)} })

\* _ltb_try_send_disp(job)
_ltb_try_send_disp(c, j, stage, ext_ret, how) ==
    The({ JobCb(c2, j, IF stage = "ok" THEN Ok ELSE EIO) :
          c2 \in {_ltb_upd_pub_cond(TrySendStage(c, c.jobs[j].inst, stage), ext_ret, how)} })

\* what the environment does while the worker runs closure u: the staging
\* of the envelope, the value of _ext_cond(), the call of _ltb_publish, the
\* listing of the pool by dpool_size
RunInputs(u) ==
    CASE u.type = "trysend" ->
             [stage : StageOutcomes, ext : IF lt.ext THEN BOOLEAN ELSE {TRUE},
              how : TickOutcomes, listing : {TRUE}]
      [] u.type \in {"force", "tick"} ->
             [stage : {"ok"}, ext : {TRUE}, how : TickOutcomes, listing : {TRUE}]
      [] u.type = "add" ->
             [stage : {"ok"}, ext : {TRUE}, how : {"ok"}, listing : BOOLEAN]
      [] OTHER -> {}

\* the state a closure starts with: nothing done to the publication yet
Fresh(c) ==
    [c EXCEPT !.gh = [NoPublication EXCEPT !.owner = c.gh.owner, !.fault = c.gh.fault]]

\* unit->cb(unit->arg) in _ltb_dispatcher
Closure(u, c, in) ==
    CASE u.type = "trysend" -> _ltb_try_send_disp(Fresh(c), u.id, in.stage, in.ext, in.how)
      [] u.type = "force" -> force_publish(Fresh(c), u.id, in.how)
      [] u.type = "tick" -> _ltb_publish(Fresh(c), 0, in.how)
      [] u.type = "add" -> _add_ltb(Fresh(c), u.id, in.listing)

\* the limits and the conforming files a pool directory may hold when its
\* instance is created
LtbLimits == {1, 2}
PoolContents == {{}, {1}}

\* the instances a behaviour creates: the first has a sender and a pool
\* directory that may hold a file, the second may lack a sender and starts
\* with an empty pool
LtbConfigs(i) ==
    IF i = 1 THEN [sender : {TRUE}, files : PoolContents]
    ELSE [sender : BOOLEAN, files : {{}}]

\* ltb_subsys_init(init); the publisher's asynchronous path shares no
\* variable with the long-term buffer, a behaviour uses one of the two
LtbSubsysInit(lim, ext) ==
    /\ ~lt.inited /\ ~pub.created
    /\ lt' = [inited |-> TRUE, lim |-> lim, ext |-> ext]
    /\ UNCHANGED << svars, lvars, xvars, nb_files_total, publishing, lhead, ltbs, pools, mbox, wcur,
                    jobs, forces, pub, gh >>

\* ltb_create(&drv, init) up to msg_send in _ltb_dispatch_sync, which blocks
\* while the worker's queue is full; files is what the pool directory holds.
\* The instances are created before the producers start.
LtbCreate(i, sender, files) ==
    /\ lt.inited /\ ~ltbs[i].created
    /\ jobs[1].drv = "none" /\ forces[1].ret = "none"
    /\ \A h \in LtbIds : h < i => ltbs[h].created
    /\ wcur = NoUnit \/ Len(mbox) < LTB_QUEUE_MSGQUEUE_LEN
    /\ ltbs' = [ltbs EXCEPT ![i] = [created |-> TRUE, sender |-> sender]]
    /\ pools' = [pools EXCEPT ![i] = files]
    /\ \E m \in {msg_try_send(Ctx, [type |-> "add", id |-> i])} :
          wcur' = m.c.wcur /\ mbox' = m.c.mbox
    /\ UNCHANGED << svars, lvars, xvars, lt, nb_files_total, publishing, lhead, jobs, forces, pub, gh >>

\* _ltb_try_send(drv, job) on the registered instance i
TrySendCall(j, i, malloc_ok) ==
    /\ jobs[j].drv = "none"
    /\ \A h \in JobIds : h < j => jobs[h].drv # "none"
    /\ \E x \in DOMAIN lhead : lhead[x] = i
    /\ \E d \in {_ltb_dispatch(Ctx, [type |-> "trysend", id |-> j], malloc_ok)} :
          /\ jobs' = [jobs EXCEPT ![j] = [NoJob EXCEPT !.drv = "ltb", !.inst = i, !.ret = d.ret]]
          /\ wcur' = d.c.wcur
          /\ mbox' = d.c.mbox
    /\ UNCHANGED << svars, lvars, xvars, lt, nb_files_total, publishing, lhead, ltbs, pools, forces,
                    pub, gh >>

\* the producers' calls of transdrv_trysend on the long-term buffer
LtbTrySend(j, i, malloc_ok) == j <= MaxJobs /\ TrySendCall(j, i, malloc_ok)

\* ltb_force_publish(cb), cb being the callback of request k
LtbForcePublish(k, malloc_ok) ==
    /\ lt.inited /\ forces[k].ret = "none"
    /\ \A h \in ForceIds : h < k => forces[h].ret # "none"
    /\ \E d \in {_ltb_dispatch(Ctx, [type |-> "force", id |-> k], malloc_ok)} :
          /\ forces' = [forces EXCEPT ![k].ret = d.ret]
          /\ wcur' = d.c.wcur
          /\ mbox' = d.c.mbox
    /\ UNCHANGED << svars, lvars, xvars, lt, nb_files_total, publishing, lhead, ltbs, pools, jobs,
                    pub, gh >>

\* _ltb_dispatcher: the worker runs the closure of the message it received
\* and receives the next message
LtbRun(in) ==
    /\ wcur # NoUnit
    /\ \E c \in {Closure(wcur, Ctx, in)} :
          /\ nb_files_total' = c.total
          /\ publishing' = c.publishing
          /\ lhead' = c.lhead
          /\ pools' = c.pools
          /\ jobs' = c.jobs
          /\ forces' = c.forces
          /\ gh' = c.gh
          /\ wcur' = IF c.mbox = << >> THEN NoUnit ELSE Head(c.mbox)
          /\ mbox' = IF c.mbox = << >> THEN << >> ELSE Tail(c.mbox)
    /\ UNCHANGED << svars, lvars, xvars, lt, ltbs, pub >>

(***************************************************************************)
(* The publisher (publisher.c): its asynchronous path.                     *)
(***************************************************************************)
PUBLISHER_QUEUE_MSGQUEUE_LEN == 4

\* publisher_init(&drv, rem_res, retry_cnt)
PubInit(retry) ==
    /\ ~pub.created /\ ~lt.inited
    /\ pub' = [pub EXCEPT !.created = TRUE, !.retry_cnt = retry]
    /\ UNCHANGED << svars, lvars, xvars, lt, nb_files_total, publishing, lhead, ltbs, pools, mbox,
                    wcur, jobs, forces, gh >>

\* _pub_try_send(drv, job): the publisher after the call and the return value
_pub_try_send(p, j) ==
    IF p.cur = 0
    THEN [ret |-> Ok, pub |-> [p EXCEPT !.nb_jobs_snd = @ + 1, !.cur = j]]
    ELSE IF Len(p.queue) < PUBLISHER_QUEUE_MSGQUEUE_LEN
    THEN [ret |-> Ok, pub |-> [p EXCEPT !.nb_jobs_snd = @ + 1, !.queue = Append(@, j)]]
    ELSE [ret |-> EWOULDBLOCK, pub |-> p]

\* transdrv_trysend(drv, job) on the publisher
PubTrySend(j) ==
    /\ pub.created /\ jobs[j].drv = "none"
    /\ \A h \in JobIds : h < j => jobs[h].drv # "none"
    /\ \E t \in {_pub_try_send(pub, j)} :
          /\ pub' = t.pub
          /\ jobs' = [jobs EXCEPT ![j] = [NoJob EXCEPT !.drv = "pub", !.ret = t.ret]]
    /\ UNCHANGED << svars, lvars, xvars, lt, nb_files_total, publishing, lhead, ltbs, pools, mbox,
                    wcur, forces, gh >>

\* the status _pub_exec_snd_job passes to the callback when the first fails
\* calls of net_send fail
_pub_exec_snd_job(retry_cnt, fails) == IF fails > retry_cnt THEN EIO ELSE Ok

\* _pub_thread: the job received is executed, its callback invoked, and the
\* next message received
PubRun(fails) ==
    /\ pub.cur # 0
    /\ \E c \in {JobCb(Ctx, pub.cur, _pub_exec_snd_job(pub.retry_cnt, fails))} :
          jobs' = c.jobs /\ gh' = c.gh
    /\ pub' = [pub EXCEPT !.nb_jobs_snd = @ - 1,
                          !.cur = IF pub.queue = << >> THEN 0 ELSE Head(pub.queue),
                          !.queue = IF pub.queue = << >> THEN << >> ELSE Tail(pub.queue)]
    /\ UNCHANGED << svars, lvars, xvars, lt, nb_files_total, publishing, lhead, ltbs, pools, mbox,
                    wcur, forces >>

LtbNext ==
    \/ \E lim \in LtbLimits, ext \in BOOLEAN : LtbSubsysInit(lim, ext)
    \/ \E i \in LtbIds : \E cf \in LtbConfigs(i) : LtbCreate(i, cf.sender, cf.files)
    \/ \E j \in JobIds, i \in LtbIds, malloc_ok \in BOOLEAN : LtbTrySend(j, i, malloc_ok)
    \/ \E k \in ForceIds, malloc_ok \in BOOLEAN : LtbForcePublish(k, malloc_ok)
    \/ \E in \in RunInputs(wcur) : LtbRun(in)
    \/ \E retry \in {0, 1} : PubInit(retry)
    \/ \E j \in JobIds : PubTrySend(j)
    \/ \E fails \in {0, 1, 2} : PubRun(fails)

LtbSpec == Init /\ [][LtbNext]_vars

(***************************************************************************)
(* Properties of the long-term buffer and of the publisher.                *)
(***************************************************************************)
\* job j waits in a worker's queue or is the message a worker has received
JobPending(j) ==
    \/ wcur = [type |-> "trysend", id |-> j]
    \/ \E x \in DOMAIN mbox : mbox[x] = [type |-> "trysend", id |-> j]
    \/ pub.cur = j
    \/ \E x \in DOMAIN pub.queue : pub.queue[x] = j

\* C14: for the LTB driver and for the publisher, the callback of a job is
\* never invoked if trysend returned an error, and is invoked exactly once if
\* trysend returned 0: not before the worker has run the job, once when it has.
C14_CallbackOncePerAcceptedJob ==
    \A j \in JobIds :
        /\ jobs[j].ret \notin {"none", Ok} => jobs[j].cbs = 0 /\ ~JobPending(j)
        /\ jobs[j].ret = Ok => jobs[j].cbs = (IF JobPending(j) THEN 0 ELSE 1)
        /\ jobs[j].ret = "none" => jobs[j].cbs = 0

\* the worker has run an accepted LTB job whose staging failed, the callback
\* got the error, and another job was refused by trysend
C14_Witness ==
    \E j, h \in JobIds :
        /\ jobs[j].drv = "ltb" /\ jobs[j].ret = Ok /\ jobs[j].cbs = 1 /\ gh.jobcb = EIO
        /\ jobs[h].drv = "ltb" /\ jobs[h].ret = ENOMEM

\* C15: a publication not requested through force_publish begins only when
\* publishing is false, nb_files_total is at least nb_files_limit, and
\* ext_cond is absent or has returned true.
C15_PublicationCondition ==
    (gh.begun /\ ~gh.forced) =>
        /\ ~gh.pub0
        /\ gh.total0 >= lt.lim
        /\ gh.ext

\* the file the next call of _ltb_publish would select
FirstFile == _ltb_get_first_file(Ctx, {})

\* the conforming files stored in the pools of the registered instances
Stored == StoredFrom(Ctx, lhead)

\* C16: a tick whose steps succeed publishes one file; a publication all of
\* whose steps succeeded ends only when no registered instance with a sender
\* has a file left, and then publishing is false; with limit L a publication
\* does not begin by itself with fewer than L stored files, and the closure
\* that stores the L-th file begins one.
C16_PublicationDrainsPools ==
    /\ gh.tick.out = "ok" =>
           /\ gh.tick.fid \notin pools[gh.tick.inst]
           /\ nb_files_total = gh.tick.total0 - 1
    /\ (gh.ended.on /\ gh.ended.clean) => (~publishing /\ FirstFile.res = ENOENT)
    /\ (gh.begun /\ ~gh.forced) => gh.stored >= lt.lim
    /\ (lt.inited /\ ~lt.ext /\ gh.jobcb = Ok /\ ~gh.begun /\ ~publishing) => Stored < lt.lim

\* C17: when the publication that a force_publish(cb) request started ends,
\* cb has been invoked exactly once, by the call of _ltb_publish that ends the
\* publication, and no cb is ever invoked twice.
C17_ForceCallbackAtEnd ==
    /\ \A k \in ForceIds : forces[k].cbs <= 1
    /\ (gh.ended.on /\ gh.ended.owner # 0) =>
           /\ gh.ended.arg = gh.ended.owner
           /\ forces[gh.ended.owner].cbs = 1

\* the calls of _ltb_publish the worker has received or still has to receive
TicksPending ==
    Cardinality({n \in DOMAIN mbox : mbox[n].type = "tick"})
        + (IF wcur.type = "tick" THEN 1 ELSE 0)

\* C18: a publication never begins while publishing is true, at most one call
\* of _ltb_publish is pending for the worker, and between two closures
\* publishing is true exactly when such a call is pending.
C18_OnePublication ==
    /\ gh.begun => ~gh.pub0
    /\ TicksPending <= 1
    /\ publishing <=> (TicksPending = 1)

\* a publication is in progress with its next call pending, after a force
\* request was processed while publishing was true and a job was completed
C18_Witness ==
    /\ publishing
    /\ TicksPending = 1
    /\ \E k \in ForceIds : forces[k].busy
    /\ \E j \in JobIds : jobs[j].drv = "ltb" /\ jobs[j].cbs = 1

\* C19: a force_publish(cb) request that the worker has processed while a
\* publication was in progress has had its cb invoked.
C19_BusyForceInvokesCallback ==
    \A k \in ForceIds : forces[k].busy => forces[k].cbs >= 1

\* C20: a file leaves a pool only in a call of _ltb_publish whose send and
\* unlink succeeded, one file per call; after a call whose send failed the file
\* is still in its pool, nb_files_total is what it was, the publication has
\* ended, and the file is still the oldest of its pool and the one the next
\* publication selects; storing files never changes which file of a pool is
\* the oldest.
C20_FailedSendKeepsFile ==
    /\ [](gh.tick.out = "sendfail" =>
              /\ gh.tick.fid \in pools[gh.tick.inst]
              /\ nb_files_total = gh.tick.total0
              /\ gh.ended.on
              /\ ~publishing
              /\ dpool_get_oldest_file(pools[gh.tick.inst], TRUE).fid = gh.tick.fid
              /\ FirstFile = [res |-> Ok, inst |-> gh.tick.inst, fid |-> gh.tick.fid])
    /\ [][\A i \in LtbIds :
              /\ pools[i] \ pools'[i] # {} =>
                     /\ gh'.tick.out = "ok"
                     /\ gh'.tick.inst = i
                     /\ pools[i] \ pools'[i] = {gh'.tick.fid}
              /\ (pools[i] # {} /\ pools'[i] # {}) =>
                     \/ Min(pools'[i]) = Min(pools[i])
                     \/ Min(pools[i]) \notin pools'[i]]_vars

\* a send has failed for the oldest of several files of a pool
C20_Witness ==
    /\ gh.tick.out = "sendfail"
    /\ Cardinality(pools[gh.tick.inst]) >= 2

(***************************************************************************)
(* The data pool (data_pool.c) on one directory.  A name is a sequence of  *)
(* characters, a file id a sequence of POOL_FNAME_MAX hexadecimal digits,  *)
(* most significant first, so that ids keep their 32 bits.                 *)
(***************************************************************************)
POOL_FNAME_MAX == 8

LowerHex == << "0", "1", "2", "3", "4", "5", "6", "7", "8", "9", "a", "b", "c", "d", "e", "f" >>
UpperHex == << "0", "1", "2", "3", "4", "5", "6", "7", "8", "9", "A", "B", "C", "D", "E", "F" >>

IsHexDigit(ch) == \E v \in 1 .. 16 : LowerHex[v] = ch \/ UpperHex[v] = ch
HexValue(ch) == (CHOOSE v \in 1 .. 16 : LowerHex[v] = ch \/ UpperHex[v] = ch) - 1
IsSpace(ch) == ch = " "

\* the ids 0 and 0xffffffff
FidZero == [n \in 1 .. POOL_FNAME_MAX |-> 0]
FidAllOnes == [n \in 1 .. POOL_FNAME_MAX |-> 15]

\* a <= b on uint32_t
FidLeq(a, b) ==
    \/ a = b
    \/ \E n \in 1 .. POOL_FNAME_MAX : a[n] < b[n] /\ \A m \in 1 .. (n - 1) : a[m] = b[m]

\* fid++ on uint32_t
FidInc(fid) ==
    IF fid = FidAllOnes THEN FidZero
    ELSE The({ [n \in 1 .. POOL_FNAME_MAX |->
                   IF n < k THEN fid[n] ELSE IF n = k THEN fid[n] + 1 ELSE 0] :
               k \in {CHOOSE k \in 1 .. POOL_FNAME_MAX :
                          fid[k] < 15 /\ \A m \in (k + 1) .. POOL_FNAME_MAX : fid[m] = 15} })

\* 0 - fid on uint32_t
FidNeg(fid) == FidInc([n \in 1 .. POOL_FNAME_MAX |-> 15 - fid[n]])

\* snprintf("%08x", fid)
Fmt08x(fid) == [n \in 1 .. POOL_FNAME_MAX |-> LowerHex[fid[n] + 1]]

\* the characters of s from position n on
From(s, n) == SubSeq(s, n, Len(s))

\* the number of leading characters of s that satisfy a digit test
RECURSIVE HexRun(_)
HexRun(s) == IF s # << >> /\ IsHexDigit(Head(s)) THEN 1 + HexRun(Tail(s)) ELSE 0

RECURSIVE SpaceRun(_)
SpaceRun(s) == IF s # << >> /\ IsSpace(Head(s)) THEN 1 + SpaceRun(Tail(s)) ELSE 0

RECURSIVE ZeroRun(_)
ZeroRun(s) == IF s # << >> /\ Head(s) = "0" THEN 1 + ZeroRun(Tail(s)) ELSE 0

\* the value of a run of hexadecimal digits as an unsigned long of 32 bits:
\* ULONG_MAX when it does not fit
HexToFid(digits) ==
    The({ IF Len(sig) > POOL_FNAME_MAX THEN FidAllOnes
          ELSE [n \in 1 .. POOL_FNAME_MAX |->
                   IF n <= POOL_FNAME_MAX - Len(sig) THEN 0
                   ELSE HexValue(sig[n - (POOL_FNAME_MAX - Len(sig))])] :
          sig \in {From(digits, ZeroRun(digits) + 1)} })

\* strtoul(fname, &endptr, 16): white space, an optional sign, an optional
\* 0x or 0X, then hexadecimal digits of either case; atend is *endptr == '\0'
strtoul(fname) ==
    The({ The({ The({ The({ IF k = 0
                            THEN [atend |-> fname = << >>, fid |-> FidZero]
                            ELSE [atend |-> k = Len(s3),
                                  fid |-> IF s1 # << >> /\ Head(s1) = "-"
                                          THEN FidNeg(HexToFid(SubSeq(s3, 1, k)))
                                          ELSE HexToFid(SubSeq(s3, 1, k))] :
                            k \in {HexRun(s3)} }) :
                      s3 \in {IF Len(s2) >= 3 /\ Head(s2) = "0" /\ s2[2] \in {"x", "X"}
                                 /\ IsHexDigit(s2[3])
                              THEN From(s2, 3) ELSE s2} }) :
                s2 \in {IF s1 # << >> /\ Head(s1) \in {"+", "-"} THEN Tail(s1) ELSE s1} }) :
          s1 \in {From(fname, SpaceRun(fname) + 1)} })

\* dirent.d_name as vfs_readdir reports the entry name
DName(name) == IF pfs.slash THEN << "/" >> \o name ELSE name

\* fname = (*dirent.d_name == '/') ? dirent.d_name + 1 : dirent.d_name
Fname(d_name) == IF d_name # << >> /\ Head(d_name) = "/" THEN Tail(d_name) ELSE d_name

\* the entries the loops do not skip as illegal file names
Legal(dir) == {name \in dir : strtoul(Fname(DName(name))).atend}

\* _cmpf_older with the comparison of _cmpf_newer
_cmpf_older_Reversed(a, b) == FidLeq(b, a)

_cmpf_older(a, b) == FidLeq(a, b)
_cmpf_newer(a, b) == FidLeq(b, a)

\* the loop of _find_file over the entries in the order vfs_readdir reports
\* them; older selects _cmpf_older, else _cmpf_newer
RECURSIVE FindLoop(_, _, _, _)
FindLoop(list, fid, found, older) ==
    IF list = << >> THEN [fid |-> fid, found |-> found]
    ELSE The({ IF ~p.atend THEN FindLoop(Tail(list), fid, found, older)
               ELSE IF (IF older THEN _cmpf_older(p.fid, fid) ELSE _cmpf_newer(p.fid, fid))
               THEN FindLoop(Tail(list), p.fid, TRUE, older)
               ELSE FindLoop(Tail(list), fid, found, older) :
               p \in {strtoul(Fname(DName(Head(list))))} })

\* _find_file(poolpath, fidp, cmpf); listing_ok: vfs_opendir and vfs_readdir
\* succeed
_find_file(dir, fid0, older, listing_ok) ==
    IF ~listing_ok THEN [ret |-> EIO, fid |-> fid0]
    ELSE The({ [ret |-> IF r.found THEN Ok ELSE ENOENT, fid |-> r.fid] :
               r \in {FindLoop(SetToSeq(dir), fid0, FALSE, older)} })

_find_oldest(dir, listing_ok) == _find_file(dir, FidAllOnes, TRUE, listing_ok)
_find_newest(dir, listing_ok) == _find_file(dir, FidZero, FALSE, listing_ok)

\* dpool_get_oldest_file(pooldir, namebuf, buflen), the buffer being large
\* enough: the return value and the name written
pool_get_oldest_file(dir, listing_ok) ==
    The({ IF r.ret # Ok THEN [ret |-> r.ret, name |-> << >>]
          ELSE [ret |-> Ok, name |-> Fmt08x(r.fid)] :
          r \in {_find_oldest(dir, listing_ok)} })

\* dpool_size(pooldir): the count, or the error
pool_size(dir, listing_ok) ==
    IF ~listing_ok THEN [ret |-> EIO, cnt |-> 0]
    ELSE [ret |-> Ok, cnt |-> Cardinality(Legal(dir))]

\* dpool_move_file(pooldir, name): the return value, the name the source is
\* renamed to, whether that name existed, and the directory afterwards;
\* rename_ok is the outcome of vfs_rename
pool_move_file(dir, listing_ok, rename_ok) ==
    The({ IF r.ret # Ok /\ r.ret # ENOENT
          THEN [ret |-> r.ret, name |-> << >>, dir |-> dir]
          ELSE The({ IF rename_ok THEN [ret |-> Ok, name |-> target, dir |-> dir \cup {target}]
                     ELSE [ret |-> EIO, name |-> target, dir |-> dir] :
                     target \in {Fmt08x(FidInc(r.fid))} }) :
          r \in {_find_newest(dir, listing_ok)} })

\* dpool_drain(pooldir): left are the entries the loop did not reach because
\* vfs_readdir or vfs_unlink failed
pool_drain(dir, left) ==
    [ret |-> IF left = {} THEN Ok ELSE EIO, dir |-> (dir \ Legal(dir)) \cup left]

\* the entry names a directory may hold when the pool starts to use it
PoolNames ==
    { << "0", "0", "0", "0", "0", "0", "0", "1" >>,
      << "0", "0", "0", "0", "0", "0", "0", "3" >>,
      << "f", "f", "f", "f", "f", "f", "f", "f" >>,
      << "1", "f" >>,
      << "0", "0", "0", "0", "0", "0", "0", "A" >>,
      << "0", "x", "0", "0", "0", "0", "1", "0" >>,
      << "r", "e", "a", "d", "m", "e" >>,
      << "0", "0", "0", "0", "0", "0", "1", "g" >> }

\* the directories the pool is started on: at most two entries
PoolDirs == {d \in SUBSET PoolNames : Cardinality(d) <= 2}

\* the application hands a directory to the pool
PoolSetup(dir, slash) ==
    /\ ~pfs.made
    /\ pfs' = [made |-> TRUE, slash |-> slash, fresh |-> dir = {}, moves |-> 0]
    /\ pdir' = dir
    /\ UNCHANGED << nonpool, pmoved, pcall >>

\* dpool_size(pooldir)
PoolSize(listing_ok) ==
    /\ pfs.made
    /\ \E r \in {pool_size(pdir, listing_ok)} :
          pcall' = [op |-> "size", ret |-> r.ret, name |-> << >>, cnt |-> r.cnt,
                    before |-> pdir]
    /\ UNCHANGED << nonpool, pfs, pdir, pmoved >>

\* dpool_get_oldest_file(pooldir, namebuf, buflen)
PoolOldest(listing_ok) ==
    /\ pfs.made
    /\ \E r \in {pool_get_oldest_file(pdir, listing_ok)} :
          pcall' = [op |-> "oldest", ret |-> r.ret, name |-> r.name, cnt |-> 0,
                    before |-> pdir]
    /\ UNCHANGED << nonpool, pfs, pdir, pmoved >>

\* dpool_move_file(pooldir, name)
PoolMove(listing_ok, rename_ok) ==
    /\ pfs.made /\ pfs.moves < MaxMoves
    /\ \E r \in {pool_move_file(pdir, listing_ok, rename_ok)} :
          /\ pcall' = [op |-> "move", ret |-> r.ret, name |-> r.name, cnt |-> 0,
                       before |-> pdir]
          /\ pdir' = r.dir
          /\ pmoved' = IF r.ret = Ok THEN Append(pmoved, r.name) ELSE pmoved
    /\ pfs' = [pfs EXCEPT !.moves = @ + 1]
    /\ UNCHANGED nonpool

\* the oldest file is taken out: dpool_get_oldest_file and vfs_unlink of the
\* name it wrote, as in _ltb_publish
PoolUnlinkOldest ==
    /\ pfs.made
    /\ \E r \in {pool_get_oldest_file(pdir, TRUE)} :
          /\ r.ret = Ok
          /\ pcall' = [op |-> "unlink", ret |-> IF r.name \in pdir THEN Ok ELSE ENOENT,
                       name |-> r.name, cnt |-> 0, before |-> pdir]
          /\ pdir' = pdir \ {r.name}
          /\ pmoved' = SelectSeq(pmoved, LAMBDA n : n # r.name)
    /\ UNCHANGED << nonpool, pfs >>

\* dpool_drain(pooldir)
PoolDrain(left) ==
    /\ pfs.made
    /\ \E r \in {pool_drain(pdir, left)} :
          /\ pcall' = [op |-> "drain", ret |-> r.ret, name |-> << >>, cnt |-> 0,
                       before |-> pdir]
          /\ pdir' = r.dir
          /\ pmoved' = SelectSeq(pmoved, LAMBDA n : n \in r.dir)
    /\ UNCHANGED << nonpool, pfs >>

PoolNext ==
    \/ \E dir \in PoolDirs, slash \in BOOLEAN : PoolSetup(dir, slash)
    \/ \E listing_ok \in BOOLEAN : PoolSize(listing_ok)
    \/ \E listing_ok \in BOOLEAN : PoolOldest(listing_ok)
    \/ \E listing_ok \in BOOLEAN, rename_ok \in BOOLEAN : PoolMove(listing_ok, rename_ok)
    \/ PoolUnlinkOldest
    \/ \E left \in SUBSET Legal(pdir) : PoolDrain(left)

PoolSpec == Init /\ [][PoolNext]_vars

(***************************************************************************)
(* Properties of the data pool.                                            *)
(***************************************************************************)
\* a name of eight lowercase hexadecimal digits
Conforming(name) ==
    /\ Len(name) = POOL_FNAME_MAX
    /\ \A n \in 1 .. POOL_FNAME_MAX : \E v \in 1 .. 16 : LowerHex[v] = name[n]

ConformingIn(dir) == {name \in dir : Conforming(name)}

\* the id a conforming name stands for
NameFid(name) == [n \in 1 .. POOL_FNAME_MAX |-> HexValue(name[n])]

\* C22: every pool operation treats exactly the entries named by eight
\* lowercase hexadecimal digits as pool files: size counts them, oldest
\* returns the smallest of them (ENOENT if there is none), move_into names
\* its file one above the largest of them, and a successful drain leaves
\* exactly the other entries.
C22_OnlyConformingNames ==
    /\ (pcall.op = "size" /\ pcall.ret = Ok) =>
           pcall.cnt = Cardinality(ConformingIn(pcall.before))
    /\ (pcall.op = "oldest" /\ pcall.ret # EIO) =>
           IF ConformingIn(pcall.before) = {} THEN pcall.ret = ENOENT
           ELSE /\ pcall.ret = Ok
                /\ pcall.name \in ConformingIn(pcall.before)
                /\ \A m \in ConformingIn(pcall.before) :
                       FidLeq(NameFid(pcall.name), NameFid(m))
    /\ (pcall.op = "move" /\ pcall.ret = Ok /\ ConformingIn(pcall.before) # {}) =>
           \E m \in ConformingIn(pcall.before) :
               /\ pcall.name = Fmt08x(FidInc(NameFid(m)))
               /\ \A o \in ConformingIn(pcall.before) : FidLeq(NameFid(o), NameFid(m))
    /\ (pcall.op = "drain" /\ pcall.ret = Ok) =>
           pdir = pcall.before \ ConformingIn(pcall.before)

\* the largest id among the conforming names of a directory that has one
MaxFid(dir) ==
    NameFid(CHOOSE m \in ConformingIn(dir) :
                \A o \in ConformingIn(dir) : FidLeq(NameFid(o), NameFid(m)))

\* C23: move_into renames its source to the name of the id (max + 1) mod 2^32,
\* max being the largest id in the pool and -1 for an empty pool, so that the
\* first file of an empty pool is 00000000.
C23_MoveNamesMaxPlusOne ==
    (pcall.op = "move" /\ pcall.name # << >>) =>
        pcall.name = Fmt08x(IF ConformingIn(pcall.before) = {} THEN FidZero
                            ELSE FidInc(MaxFid(pcall.before)))

\* C24: in a directory that was empty when the pool started to use it, size
\* is the number of files moved in and not removed since, and oldest returns
\* the first of them in move-in order (ENOENT when there is none), after any
\* number of moves and removals of the oldest file.
C24_OldestIsFirstMoved ==
    pfs.fresh =>
        /\ pool_size(pdir, TRUE) = [ret |-> Ok, cnt |-> Len(pmoved)]
        /\ pool_get_oldest_file(pdir, TRUE) =
               IF pmoved = << >> THEN [ret |-> ENOENT, name |-> << >>]
               ELSE [ret |-> Ok, name |-> Head(pmoved)]

\* three files were moved into an empty pool and the oldest was removed
C24_Witness ==
    /\ pfs.fresh
    /\ pfs.moves = 3
    /\ pcall.op = "unlink" /\ pcall.ret = Ok
    /\ Len(pmoved) = 2

(***************************************************************************)
(* The publisher (publisher.c), one instance, step by step: callers of     *)
(* trysend, send and delete, and the sender thread.  snd->lock is held     *)
(* from the increment in _pub_try_send to its return, and inside the       *)
(* decrement of _pub_thread and the test of _pub_delete.                   *)
(***************************************************************************)
\* what net_send returns: a negative error, zero, a positive count
NetOutcomes == {"neg", "zero", "pos"}

\* the values publisher_init is given as retry_cnt
RetryCnts == {0, 1}

\* res > 0 ? 0 : res
StatusOf(r) == IF r = "neg" THEN EIO ELSE Ok

\* the loop with the condition res < 0 alone
NetSendPass_NoCount(snd, r) ==
    [run |-> [snd EXCEPT !.tries = @ + 1, !.last = r,
                         !.retry = IF r = "neg" /\ @ > 0 THEN @ - 1 ELSE @],
     more |-> r = "neg"]

\* one pass of the loop do { res = net_send(...); } while (res < 0 && retry--):
\* the send after the attempt; more tells that the loop goes on
NetSendPass(snd, r) ==
    [run |-> [snd EXCEPT !.tries = @ + 1, !.last = r,
                         !.retry = IF r = "neg" /\ @ > 0 THEN @ - 1 ELSE @],
     more |-> r = "neg" /\ snd.retry > 0]

\* msg_try_send with a queue that hands out the newest message first
pub_msg_try_send_Lifo(w, q, j) ==
    IF w.pc = "wait" THEN [res |-> 1, w |-> [pc |-> "exec", job |-> j], q |-> q]
    ELSE IF Len(q) < PUBLISHER_QUEUE_MSGQUEUE_LEN THEN [res |-> 1, w |-> w, q |-> << j >> \o q]
    ELSE [res |-> 0, w |-> w, q |-> q]

\* msg_try_send(&msg, _sender_pid): the job goes to the sender thread if it
\* waits in msg_receive, else into its queue if there is room
pub_msg_try_send(w, q, j) ==
    IF w.pc = "wait" THEN [res |-> 1, w |-> [pc |-> "exec", job |-> j], q |-> q]
    ELSE IF Len(q) < PUBLISHER_QUEUE_MSGQUEUE_LEN THEN [res |-> 1, w |-> w, q |-> Append(q, j)]
    ELSE [res |-> 0, w |-> w, q |-> q]

\* cond_signal(&snd->close_cond): wakes the caller of delete if it waits
cond_signal(d) == IF d = "wait" THEN "woken" ELSE d

\* the job the next call is made with
NextPubJob == CHOOSE j \in 1 .. MaxPubJobs :
                  pjs[j].path = "none" /\ \A h \in 1 .. (j - 1) : pjs[h].path # "none"

PubJobsLeft == \E j \in 1 .. MaxPubJobs : pjs[j].path = "none"

SyncBusy == prun.sync.job # 0 /\ ~prun.sync.fin

\* publisher_init(&drv, rem_res, retry_cnt)
PublisherInit(retry) ==
    /\ ~ps.alive /\ pd = "idle"
    /\ ps' = [ps EXCEPT !.alive = TRUE, !.retry_cnt = retry]
    /\ UNCHANGED << nonpub, pmq, pw, pd, pjs, prun, plog >>

\* _pub_try_send(drv, job) from mutex_lock to the result of msg_try_send;
\* when the message is not taken the call decrements, unlocks and returns.
\* No call is made on a publ_t whose delete has found the counter zero.
PubTrySendLocked ==
    /\ ps.alive /\ ps.lock = 0 /\ pd \in {"idle", "wait", "woken"}
    /\ PubJobsLeft /\ ~SyncBusy
    /\ \E j \in {NextPubJob} : \E m \in {pub_msg_try_send(pw, pmq, j)} :
          IF m.res = 1
          THEN /\ ps' = [ps EXCEPT !.nb_jobs_snd = @ + 1, !.lock = j]
               /\ pw' = m.w
               /\ pmq' = m.q
               /\ prun' = IF m.w # pw
                          THEN [prun EXCEPT !.async = [NoRun EXCEPT !.job = j,
                                                                  !.retry = ps.retry_cnt]]
                          ELSE prun
               /\ pjs' = [pjs EXCEPT ![j] = [NoPubJob EXCEPT !.path = "try", !.ret = "pending"]]
               /\ plog' = [plog EXCEPT !.acc = Append(@, j)]
               /\ pd' = pd
          ELSE /\ pd' = IF ps.nb_jobs_snd = 0 THEN cond_signal(pd) ELSE pd
               /\ pjs' = [pjs EXCEPT ![j] = [NoPubJob EXCEPT !.path = "try", !.ret = EWOULDBLOCK]]
               /\ UNCHANGED << ps, pw, pmq, prun, plog >>
    /\ UNCHANGED nonpub

\* _pub_try_send: mutex_unlock and return 0
PubTrySendReturn ==
    /\ ps.lock # 0
    /\ pjs' = [pjs EXCEPT ![ps.lock].ret = Ok]
    /\ ps' = [ps EXCEPT !.lock = 0]
    /\ UNCHANGED << nonpub, pmq, pw, pd, prun, plog >>

\* _pub_exec_snd_job: one call of net_send; after the last one the callback
\* is invoked with the status
PubExec(r) ==
    /\ pw.pc = "exec"
    /\ \E n \in {NetSendPass(prun.async, r)} :
          IF n.more
          THEN /\ prun' = [prun EXCEPT !.async = n.run]
               /\ plog' = [plog EXCEPT !.uaf = @ \/ ~ps.alive]
               /\ UNCHANGED << pw, pjs >>
          ELSE /\ prun' = [prun EXCEPT !.async = [n.run EXCEPT !.fin = TRUE,
                                                                !.status = StatusOf(r)]]
               /\ pjs' = [pjs EXCEPT ![pw.job].cbs = @ + 1]
               /\ plog' = [plog EXCEPT !.done = Append(@, pw.job),
                                       !.late = @ \/ pd = "returned",
                                       !.uaf = @ \/ ~ps.alive]
               /\ pw' = [pw EXCEPT !.pc = "dec"]
    /\ UNCHANGED << nonpub, ps, pmq, pd >>

\* _pub_thread: the decrement under snd->lock, the signal, and msg_receive
PubJobDone ==
    /\ pw.pc = "dec" /\ ps.lock = 0
    /\ ps' = [ps EXCEPT !.nb_jobs_snd = @ - 1]
    /\ pd' = IF ps.nb_jobs_snd = 1 THEN cond_signal(pd) ELSE pd
    /\ plog' = [plog EXCEPT !.uaf = @ \/ ~ps.alive]
    /\ IF pmq = << >>
       THEN pw' = [pc |-> "wait", job |-> 0] /\ UNCHANGED << pmq, prun >>
       ELSE /\ pw' = [pc |-> "exec", job |-> Head(pmq)]
            /\ pmq' = Tail(pmq)
            /\ prun' = [prun EXCEPT !.async = [NoRun EXCEPT !.job = Head(pmq),
                                                            !.retry = ps.retry_cnt]]
    /\ UNCHANGED << nonpub, pjs >>

\* _pub_send(drv, job) is called
PubSendCall ==
    /\ ps.alive /\ pd = "idle" /\ ps.lock = 0
    /\ PubJobsLeft /\ ~SyncBusy
    /\ \E j \in {NextPubJob} :
          /\ pjs' = [pjs EXCEPT ![j] = [NoPubJob EXCEPT !.path = "sync", !.ret = "pending"]]
          /\ prun' = [prun EXCEPT !.sync = [NoRun EXCEPT !.job = j, !.retry = ps.retry_cnt]]
    /\ UNCHANGED << nonpub, ps, pmq, pw, pd, plog >>

\* _pub_send: one call of net_send; after the last one the callback is
\* invoked if res >= 0, and the call returns
PubSendPass(r) ==
    /\ SyncBusy
    /\ \E n \in {NetSendPass(prun.sync, r)} :
          IF n.more
          THEN prun' = [prun EXCEPT !.sync = n.run] /\ pjs' = pjs
          ELSE /\ prun' = [prun EXCEPT !.sync = [n.run EXCEPT !.fin = TRUE,
                                                               !.status = StatusOf(r)]]
               /\ pjs' = [pjs EXCEPT ![prun.sync.job].ret = StatusOf(r),
                                     ![prun.sync.job].cbs = IF r # "neg" THEN @ + 1 ELSE @]
    /\ plog' = [plog EXCEPT !.uaf = @ \/ ~ps.alive]
    /\ UNCHANGED << nonpub, ps, pmq, pw, pd >>

\* _pub_delete without the loop on nb_jobs_snd
DeleteTest_NoWait == "free"

\* while (sndp->nb_jobs_snd) cond_wait(...), entered under the lock
DeleteTest == IF ps.nb_jobs_snd # 0 THEN "wait" ELSE "free"

\* _pub_delete(&drv) is called: mutex_lock and the first test
PubDeleteCall ==
    /\ ps.alive /\ pd = "idle" /\ ps.lock = 0 /\ ~SyncBusy
    /\ pd' = DeleteTest
    /\ UNCHANGED << nonpub, ps, pmq, pw, pjs, prun, plog >>

\* _pub_delete: cond_wait returns with the lock, and the test is repeated
PubDeleteWake ==
    /\ pd = "woken" /\ ps.lock = 0
    /\ pd' = DeleteTest
    /\ UNCHANGED << nonpub, ps, pmq, pw, pjs, prun, plog >>

\* _pub_delete: rem_res_freedata, free and return
PubDeleteFree ==
    /\ pd = "free"
    /\ pd' = "returned"
    /\ ps' = [ps EXCEPT !.alive = FALSE]
    /\ UNCHANGED << nonpub, pmq, pw, pjs, prun, plog >>

PubNext ==
    \/ \E retry \in RetryCnts : PublisherInit(retry)
    \/ PubTrySendLocked
    \/ PubTrySendReturn
    \/ \E r \in NetOutcomes : PubExec(r)
    \/ PubJobDone
    \/ PubSendCall
    \/ \E r \in NetOutcomes : PubSendPass(r)
    \/ PubDeleteCall
    \/ PubDeleteWake
    \/ PubDeleteFree

PubSpec == Init /\ [][PubNext]_vars

(***************************************************************************)
(* Properties of the publisher.                                            *)
(***************************************************************************)
PubPaths == {"async", "sync"}

\* C25: on the path of the sender thread and on the synchronous path, a job
\* sees at most retry_cnt + 1 calls of net_send and at least one when it is
\* finished; a call follows only a call that returned a negative value; the
\* status of the finished job is the result of the last call (0 for a
\* result that is not negative).
C25_NetSendAttempts ==
    /\ [](\A x \in PubPaths :
              /\ prun[x].tries <= ps.retry_cnt + 1
              /\ (prun[x].job # 0 /\ ~prun[x].fin /\ prun[x].tries > 0) => prun[x].last = "neg"
              /\ prun[x].fin =>
                     /\ prun[x].tries >= 1
                     /\ prun[x].status = (IF prun[x].last = "neg" THEN EIO ELSE Ok))
    /\ [][\A x \in PubPaths :
              (prun'[x].job = prun[x].job /\ prun'[x].tries # prun[x].tries) =>
                  /\ prun'[x].tries = prun[x].tries + 1
                  /\ ~prun[x].fin
                  /\ prun[x].tries = 0 \/ prun[x].last = "neg"]_vars

\* with retry_cnt = 1, a job of the sender thread succeeded at the second
\* call and a synchronous job failed twice
C25_Witness ==
    /\ ps.retry_cnt = 1
    /\ prun.async.fin /\ prun.async.tries = 2 /\ prun.async.last = "pos"
    /\ prun.sync.fin /\ prun.sync.tries = 2 /\ prun.sync.last = "neg"

\* the jobs trysend accepted that the sender thread is not yet done with:
\* queued, in execution, or before the decrement that follows the callback
Outstanding ==
    {j \in 1 .. MaxPubJobs :
        \/ \E n \in DOMAIN pmq : pmq[n] = j
        \/ pw.pc \in {"exec", "dec"} /\ pw.job = j}

C27_CompletionInAcceptanceOrder ==
    /\ Len(plog.done) <= Len(plog.acc)
    /\ \A n \in DOMAIN plog.done : plog.done[n] = plog.acc[n]

\* three jobs are completed while two more wait in the queue
C27_Witness ==
    /\ Len(plog.done) = 3
    /\ Len(pmq) = 2

(***************************************************************************)
(* recstr_close on the logger (recstr.h, logging.c), next to the callers   *)
(* of recstr_put.  recstr_close calls itf->close without taking rs->lock.  *)
(***************************************************************************)
\* recstr_close(&rs) is called and enters _logg_close
LoggCloseCall ==
    /\ lg.created /\ lc = "none"
    /\ lc' = "flush"
    /\ UNCHANGED << svars, lvars, bvars, pvars, qvars, dvars >>

\* _logg_close: one pass of the loop of _logg_flush
LoggCloseFlush(in) ==
    /\ lc = "flush"
    /\ in.copy
    /\ \E g \in EncLenGarbage(rs) :
       \E c \in {LoggFlushPass(rs, lg.encbuf_size, in, g)} :
        /\ rs' = c.rs
        /\ op' = "logg_close"
        /\ res' = c.res
        /\ lfreed' = c.freed
        /\ handed' = handed \o c.handed
        /\ regime' = (regime /\ in.malloc /\ in.snd = "wouldblock")
        /\ lc' = IF c.again THEN "flush" ELSE "invalidate"
    /\ UNCHANGED << constructed, rec0, rec, out0, out, envelope, same, expect, freed, run,
                    valid0, len0, pending, drain, nput, lg, lk, accepted, full0, nflush,
                    bvars, pvars, qvars, dvars >>

\* _logg_close: recser_swap with a NULL buffer, free(logger), *rstr = NULL
LoggCloseFree ==
    /\ lc = "invalidate"
    /\ \E g \in EncLenGarbage(rs) :
       \E c \in {recser_swap(rs, NoBuf, g)} :
        /\ rs' = c.rs
        /\ lfreed' = SetToSeq(c.freed)
    /\ op' = "logg_close"
    /\ lg' = [lg EXCEPT !.created = FALSE]
    /\ lc' = "closed"
    /\ UNCHANGED << constructed, res, rec0, rec, out0, out, envelope, same, expect, freed, run,
                    valid0, len0, pending, drain, nput, lk, handed, accepted, regime, full0,
                    nflush, bvars, pvars, qvars, dvars >>

\* the callers of recstr_put go on while the logger is closed; what a call
\* does on the freed logger is left open
CloseNext ==
    \/ \E encbuf \in LoggBufLens, queue \in LoggQueues, base \in BaseNames :
          lc = "none" /\ LoggCreate(encbuf, queue, base, "none")
    \/ \E p \in Producers, req \in {"put", "flush"} :
          nput + nflush < MaxStreamCalls /\ LoggLock(p, req)
    \/ \E r \in LoggRecords, in \in LoggEnv : lc # "closed" /\ LoggPut(r, in)
    \/ \E in \in LoggEnv : lc # "closed" /\ LoggFlushStep(in)
    \/ LoggCloseCall
    \/ \E in \in LoggEnv : LoggCloseFlush(in)
    \/ LoggCloseFree

CloseSpec == Init /\ [][CloseNext]_vars

\* C28: rs->lock is held across every put, get and close call: while a call
\* of recstr_close executes, and after it has freed the logger, no other
\* thread is inside a put or a flush on that logger.
C28_CloseNeverOverlapsPut ==
    lc # "none" => lk.owner = 0

(***************************************************************************)
(* The staging of an envelope by the trysend closure (ltb.c).              *)
(***************************************************************************)
\* the worker's step runs the closure of a trysend unit
TrySendStep ==
    /\ wcur.type = "trysend"
    /\ jobs'[wcur.id].cbs = jobs[wcur.id].cbs + 1

\* the pools once the file sent by the closure's call of _ltb_publish, if
\* any, is put back
PoolsBeforeUnlink ==
    IF gh'.tick.out = "ok"
    THEN [pools' EXCEPT ![gh'.tick.inst] = @ \cup {gh'.tick.fid}]
    ELSE pools'

\* _nb_files_total before the decrement of the closure's call of
\* _ltb_publish, if any
TotalBeforeUnlink == nb_files_total' + (IF gh'.tick.out = "ok" THEN 1 ELSE 0)

\* C29: a trysend closure whose callback gets success has added exactly one
\* file to the pool of the job's instance and one to _nb_files_total; one
\* whose staging failed has added no file and left _nb_files_total as it
\* was, and its callback gets the error; in both cases _ltb_upd_pub_cond had
\* been called when the callback ran, and the call of _ltb_publish it
\* made, if any, saw the total after the staging.
C29_StagingAllOrNothing ==
    [][TrySendStep =>
         /\ gh'.jobcb \in {Ok, EIO}
         /\ gh'.cbeval
         /\ gh'.jobcb = Ok =>
               /\ \E f \in (0 .. FidMod - 1) \ pools[jobs[wcur.id].inst] :
                     PoolsBeforeUnlink = [pools EXCEPT ![jobs[wcur.id].inst] = @ \cup {f}]
               /\ TotalBeforeUnlink = nb_files_total + 1
         /\ gh'.jobcb = EIO =>
               /\ PoolsBeforeUnlink = pools
               /\ TotalBeforeUnlink = nb_files_total
         /\ gh'.tick.out # "none" /\ ~publishing => gh'.tick.total0 = TotalBeforeUnlink]_vars

\* a failed staging has been reported to the callback, nothing stored, and
\* the total is still below the limit
C29_Witness ==
    /\ gh.jobcb = EIO /\ gh.cbeval
    /\ nb_files_total = 0 /\ \A i \in LtbIds : pools[i] = {}
    /\ jobs[1].cbs = 1 /\ jobs[1].ret = Ok

(***************************************************************************)
(* The worker's mailbox under load (ltb.c): one instance with a sender, a  *)
(* limit of one file, producers that hand over jobs faster than the        *)
(* worker runs their closures. Allocation and staging succeed.             *)
(***************************************************************************)
\* what the environment does while the worker runs closure u under load
BurstInputs(u) ==
    { in \in RunInputs(u) : in.stage = "ok" /\ in.how \in {"ok", "sendfail"} /\ in.listing }

BurstNext ==
    \/ LtbSubsysInit(1, FALSE)
    \/ \E files \in PoolContents : LtbCreate(1, TRUE, files)
    \/ \E j \in JobIds : j <= MaxBurst /\ TrySendCall(j, 1, TRUE)
    \/ LtbForcePublish(1, TRUE)
    \/ \E in \in BurstInputs(wcur) : LtbRun(in)

BurstSpec == Init /\ [][BurstNext]_vars

\* C30: no call of _ltb_publish that sent and unlinked a file ends the
\* publication because its dispatch of the next call was refused: the
\* terminal status of a publication is never -EWOULDBLOCK.
C30_SelfDispatchSucceeds == ~(gh.ended.on /\ gh.ended.res = EWOULDBLOCK)

(***************************************************************************)
(* The dispatch worker step by step (ltb.c): every read and write of the   *)
(* static variables inside a closure is a step of its own, and the         *)
(* producers' calls interleave with them. Listing, unlinking and           *)
(* allocation succeed.                                                     *)
(***************************************************************************)
\* the variables the worker and the callers of the long-term buffer leave alone
dfix == << svars, lvars, pvars, qvars, cvars, pub, gh >>

\* the first statement of the closure of a message
Entry(type) ==
    CASE type = "add" -> "add_size"
      [] type = "remove" -> "rm_unlink"
      [] type = "trysend" -> "ts_stage"
      [] type = "force" -> "fp_test"
      [] type = "tick" -> "pub_flag"

\* the thread that waits for the synchronous unit the worker has received
Caller == CHOOSE p \in DOMAIN dcall : dcall[p].unit = wcur

\* the registry without instance i
Unlinked(list, i) == SelectSeq(list, LAMBDA x : x # i)

\* msg_receive(&msg) returns
WReceive ==
    /\ wcur # NoUnit /\ dw.pc = "recv"
    /\ dw' = [WorkerIdle EXCEPT !.pc = Entry(wcur.type)]
    /\ UNCHANGED << dfix, lt, nb_files_total, publishing, lhead, ltbs, pools, mbox, wcur, jobs,
                    forces, dcall, dinst >>

\* _add_ltb: res = dpool_size(ltb->pooldir); _nb_files_total += res
WAddSize ==
    /\ dw.pc = "add_size"
    /\ \E r \in {dpool_size(pools[wcur.id], TRUE)} :
          nb_files_total' = nb_files_total + (IF r < 0 THEN 0 ELSE r)
    /\ dw' = [dw EXCEPT !.pc = "add_link"]
    /\ UNCHANGED << dfix, lt, publishing, lhead, ltbs, pools, mbox, wcur, jobs, forces, dcall,
                    dinst >>

\* _add_ltb: ltb->next = _ltb_lhead; _ltb_lhead = ltb
WAddLink ==
    /\ dw.pc = "add_link"
    /\ lhead' = << wcur.id >> \o lhead
    /\ dw' = [dw EXCEPT !.pc = "sync_lock"]
    /\ UNCHANGED << dfix, lt, nb_files_total, publishing, ltbs, pools, mbox, wcur, jobs, forces,
                    dcall, dinst >>

\* _remove_ltb: the instance is taken out of the list
WRmUnlink ==
    /\ dw.pc = "rm_unlink"
    /\ lhead' = Unlinked(lhead, wcur.id)
    /\ dw' = [dw EXCEPT !.pc = "rm_size"]
    /\ UNCHANGED << dfix, lt, nb_files_total, publishing, ltbs, pools, mbox, wcur, jobs, forces,
                    dcall, dinst >>

\* _remove_ltb: res = dpool_size(ltb->pooldir); _nb_files_total -= res
WRmSize ==
    /\ dw.pc = "rm_size"
    /\ \E r \in {dpool_size(pools[wcur.id], TRUE)} :
          nb_files_total' = nb_files_total - (IF r < 0 THEN 0 ELSE r)
    /\ dw' = [dw EXCEPT !.pc = "sync_lock"]
    /\ UNCHANGED << dfix, lt, publishing, lhead, ltbs, pools, mbox, wcur, jobs, forces, dcall,
                    dinst >>

\* _ltb_dispatcher, DISPATCH_TYPE_SYNC: mutex_lock(&unit->lock)
WSyncLock ==
    /\ dw.pc = "sync_lock"
    /\ dcall[Caller].lock = "free"
    /\ dcall' = [dcall EXCEPT ![Caller].lock = "worker"]
    /\ dw' = [dw EXCEPT !.pc = "sync_signal"]
    /\ UNCHANGED << dfix, lt, nb_files_total, publishing, lhead, ltbs, pools, mbox, wcur, jobs,
                    forces, dinst >>

\* _ltb_dispatcher, DISPATCH_TYPE_SYNC: cond_signal(&unit->cond) and
\* mutex_unlock(&unit->lock)
WSyncSignal ==
    /\ dw.pc = "sync_signal"
    /\ dcall' = [dcall EXCEPT ![Caller].pc = IF @ = "waiting" THEN "signalled" ELSE @,
                              ![Caller].lock = "free"]
    /\ dw' = [dw EXCEPT !.pc = "done"]
    /\ UNCHANGED << dfix, lt, nb_files_total, publishing, lhead, ltbs, pools, mbox, wcur, jobs,
                    forces, dinst >>

\* _ltb_try_send_disp: the envelope is copied to the staging file and the
\* file renamed into the pool
WTsStage(stage) ==
    /\ dw.pc = "ts_stage"
    /\ pools' = IF stage = "ok"
                THEN [pools EXCEPT ![jobs[wcur.id].inst] = dpool_move_file(@)]
                ELSE pools
    /\ dw' = [dw EXCEPT !.pc = IF stage = "ok" THEN "ts_inc" ELSE "upd"]
    /\ UNCHANGED << dfix, lt, nb_files_total, publishing, lhead, ltbs, mbox, wcur, jobs, forces,
                    dcall, dinst >>

\* _ltb_try_send_disp: _nb_files_total++
WTsInc ==
    /\ dw.pc = "ts_inc"
    /\ nb_files_total' = nb_files_total + 1
    /\ dw' = [dw EXCEPT !.pc = "upd"]
    /\ UNCHANGED << dfix, lt, publishing, lhead, ltbs, pools, mbox, wcur, jobs, forces, dcall,
                    dinst >>

\* _ltb_upd_pub_cond up to the call of _ltb_publish(NULL)
WUpd(ext_ret) ==
    /\ dw.pc = "upd"
    /\ \E e \in {IF lt.ext THEN ext_ret ELSE TRUE} :
          dw' = IF ~publishing /\ SizeCast(nb_files_total) >= lt.lim /\ e
                THEN [dw EXCEPT !.pc = "pub_flag", !.ret = "ts_cb", !.arg = 0]
                ELSE [dw EXCEPT !.pc = "ts_cb"]
    /\ UNCHANGED << dfix, lt, nb_files_total, publishing, lhead, ltbs, pools, mbox, wcur, jobs,
                    forces, dcall, dinst >>

\* _ltb_try_send_disp: job->cb(job, res)
WTsCb ==
    /\ dw.pc = "ts_cb"
    /\ jobs' = [jobs EXCEPT ![wcur.id].cbs = @ + 1, ![wcur.id].inst = 0]
    /\ dw' = [dw EXCEPT !.pc = "done"]
    /\ UNCHANGED << dfix, lt, nb_files_total, publishing, lhead, ltbs, pools, mbox, wcur, forces,
                    dcall, dinst >>

\* _force_publish up to the call of _ltb_publish(arg)
WFpTest ==
    /\ dw.pc = "fp_test"
    /\ dw' = IF ~publishing
             THEN [dw EXCEPT !.pc = "pub_flag", !.ret = "done", !.arg = wcur.id]
             ELSE [dw EXCEPT !.pc = "done"]
    /\ forces' = IF ~publishing THEN forces ELSE [forces EXCEPT ![wcur.id].busy = TRUE]
    /\ UNCHANGED << dfix, lt, nb_files_total, publishing, lhead, ltbs, pools, mbox, wcur, jobs,
                    dcall, dinst >>

\* _ltb_publish: _publishing = true
WPubFlag ==
    /\ dw.pc = "pub_flag"
    /\ publishing' = TRUE
    /\ dw' = [dw EXCEPT !.pc = "pub_send"]
    /\ UNCHANGED << dfix, lt, nb_files_total, lhead, ltbs, pools, mbox, wcur, jobs, forces, dcall,
                    dinst >>

\* _ltb_publish: _ltb_get_first_file, vfs_open, transdrv_send
WPubSend(how) ==
    /\ dw.pc = "pub_send"
    /\ \E ff \in {_ltb_get_first_file(Ctx, {})} :
          dw' = IF ff.res # Ok \/ how # "ok"
                THEN [dw EXCEPT !.pc = "pub_end"]
                ELSE [dw EXCEPT !.pc = "pub_unlink", !.ff = [inst |-> ff.inst, fid |-> ff.fid]]
    /\ UNCHANGED << dfix, lt, nb_files_total, publishing, lhead, ltbs, pools, mbox, wcur, jobs,
                    forces, dcall, dinst >>

\* _ltb_publish with the decrement outside the test of vfs_unlink's result
WPubUnlink_AlwaysDecrement(unlink_ok) ==
    /\ dw.pc = "pub_unlink"
    /\ pools' = IF unlink_ok THEN [pools EXCEPT ![dw.ff.inst] = @ \ {dw.ff.fid}] ELSE pools
    /\ nb_files_total' = nb_files_total - 1
    /\ dw' = [dw EXCEPT !.pc = "pub_disp"]
    /\ UNCHANGED << dfix, lt, publishing, lhead, ltbs, mbox, wcur, jobs, forces, dcall, dinst >>

\* _ltb_publish: vfs_unlink(fname) and, if it succeeded, _nb_files_total--
WPubUnlink(unlink_ok) ==
    /\ dw.pc = "pub_unlink"
    /\ pools' = IF unlink_ok THEN [pools EXCEPT ![dw.ff.inst] = @ \ {dw.ff.fid}] ELSE pools
    /\ nb_files_total' = IF unlink_ok THEN nb_files_total - 1 ELSE nb_files_total
    /\ dw' = [dw EXCEPT !.pc = "pub_disp"]
    /\ UNCHANGED << dfix, lt, publishing, lhead, ltbs, mbox, wcur, jobs, forces, dcall, dinst >>

\* _ltb_publish: _ltb_dispatch(_ltb_publish, NULL) and return 0, or goto
\* _publish_end
WPubDisp ==
    /\ dw.pc = "pub_disp"
    /\ \E d \in {_ltb_dispatch(Ctx, TickUnit, TRUE)} :
          /\ mbox' = d.c.mbox
          /\ dw' = [dw EXCEPT !.pc = IF d.ret = Ok THEN dw.ret ELSE "pub_end"]
    /\ UNCHANGED << dfix, lt, nb_files_total, publishing, lhead, ltbs, pools, wcur, jobs, forces,
                    dcall, dinst >>

\* _publish_end: the callback in arg, _publishing = false, return
WPubEnd ==
    /\ dw.pc = "pub_end"
    /\ forces' = IF dw.arg # 0 THEN [forces EXCEPT ![dw.arg].cbs = @ + 1] ELSE forces
    /\ publishing' = FALSE
    /\ dw' = [dw EXCEPT !.pc = dw.ret]
    /\ UNCHANGED << dfix, lt, nb_files_total, lhead, ltbs, pools, mbox, wcur, jobs, dcall, dinst >>

\* _ltb_dispatcher: the closure has returned; msg_receive(&msg)
WDone ==
    /\ dw.pc = "done"
    /\ wcur' = IF mbox = << >> THEN NoUnit ELSE Head(mbox)
    /\ mbox' = IF mbox = << >> THEN << >> ELSE Tail(mbox)
    /\ dw' = WorkerIdle
    /\ UNCHANGED << dfix, lt, nb_files_total, publishing, lhead, ltbs, pools, jobs, forces, dcall,
                    dinst >>

\* _ltb_dispatch_sync(cb, arg) if it called cb(arg) in the caller's thread
\* instead of sending the unit to the worker
_ltb_dispatch_sync_InCaller(c, unit) ==
    [total |-> IF unit.type = "add" THEN c.total + Cardinality(c.pools[unit.id])
               ELSE c.total - Cardinality(c.pools[unit.id]),
     lhead |-> IF unit.type = "add" THEN << unit.id >> \o c.lhead
               ELSE Unlinked(c.lhead, unit.id),
     wcur |-> c.wcur, mbox |-> c.mbox,
     call |-> [unit |-> unit, pc |-> "signalled", lock |-> "free"]]

\* _ltb_dispatch_sync(cb, arg) without mutex_lock(&unit.lock) before msg_send
_ltb_dispatch_sync_NoLock(c, unit) ==
    The({ [total |-> c.total, lhead |-> c.lhead, wcur |-> m.c.wcur, mbox |-> m.c.mbox,
           call |-> [unit |-> unit, pc |-> "sent", lock |-> "free"]] :
          m \in {msg_try_send(c, unit)} })

\* _ltb_dispatch_sync(cb, arg) up to the return of msg_send, which blocks
\* while the worker's queue is full: the static variables, the worker's
\* messages and the caller afterwards
_ltb_dispatch_sync(c, unit) ==
    The({ [total |-> c.total, lhead |-> c.lhead, wcur |-> m.c.wcur, mbox |-> m.c.mbox,
           call |-> [unit |-> unit, pc |-> "sent", lock |-> "caller"]] :
          m \in {msg_try_send(c, unit)} })

\* a thread p that is in no call sends a synchronous unit
SyncCall(p, unit) ==
    /\ dcall[p] = NoSyncCall
    /\ wcur = NoUnit \/ Len(mbox) < LTB_QUEUE_MSGQUEUE_LEN
    /\ \E d \in {_ltb_dispatch_sync(Ctx, unit)} :
          /\ nb_files_total' = d.total
          /\ lhead' = d.lhead
          /\ wcur' = d.wcur
          /\ mbox' = d.mbox
          /\ dcall' = [dcall EXCEPT ![p] = d.call]

\* ltb_create(&drv, init) by thread p up to the return of msg_send
DispCreate(p, i, sender, files) ==
    /\ lt.inited /\ dinst[i] = "none"
    /\ SyncCall(p, [type |-> "add", id |-> i])
    /\ ltbs' = [ltbs EXCEPT ![i] = [created |-> TRUE, sender |-> sender]]
    /\ pools' = [pools EXCEPT ![i] = files]
    /\ dinst' = [dinst EXCEPT ![i] = "creating"]
    /\ UNCHANGED << dfix, lt, publishing, jobs, forces, dw >>

\* _ltb_delete(&drv) by thread p up to the return of msg_send
DispDelete(p, i) ==
    /\ dinst[i] = "live"
    /\ SyncCall(p, [type |-> "remove", id |-> i])
    /\ dinst' = [dinst EXCEPT ![i] = "deleting"]
    /\ UNCHANGED << dfix, lt, publishing, ltbs, pools, jobs, forces, dw >>

\* _ltb_dispatch_sync: cond_wait(&unit.cond, &unit.lock) releases the lock
\* and blocks
DispCondWait(p) ==
    /\ dcall[p].pc = "sent"
    /\ dcall' = [dcall EXCEPT ![p].pc = "waiting", ![p].lock = "free"]
    /\ UNCHANGED << dfix, lt, nb_files_total, publishing, lhead, ltbs, pools, mbox, wcur, jobs,
                    forces, dw, dinst >>

\* _ltb_dispatch_sync: cond_wait returns with the lock, mutex_unlock, return;
\* ltb_create returns 0, _ltb_delete frees the instance
DispSyncReturn(p) ==
    /\ dcall[p].pc = "signalled" /\ dcall[p].lock = "free"
    /\ dcall' = [dcall EXCEPT ![p] = NoSyncCall]
    /\ dinst' = [dinst EXCEPT ![dcall[p].unit.id] =
                    IF dcall[p].unit.type = "add" THEN "live" ELSE "gone"]
    /\ UNCHANGED << dfix, lt, nb_files_total, publishing, lhead, ltbs, pools, mbox, wcur, jobs,
                    forces, dw >>

\* transdrv_trysend(drv, job) on instance i by a thread that is in no call
DispTrySend(j, i) ==
    /\ dinst[i] = "live"
    /\ \E p \in DOMAIN dcall : dcall[p] = NoSyncCall
    /\ j <= MaxDispJobs /\ TrySendCall(j, i, TRUE)

\* ltb_force_publish(cb) by a thread that is in no call
DispForcePublish(k) ==
    /\ \E p \in DOMAIN dcall : dcall[p] = NoSyncCall
    /\ LtbForcePublish(k, TRUE)

DispNext ==
    \/ \E lim \in LtbLimits : LtbSubsysInit(lim, FALSE)
    \/ \E p \in DOMAIN dcall, i \in LtbIds : \E cf \in LtbConfigs(i) :
          DispCreate(p, i, cf.sender, cf.files)
    \/ \E p \in DOMAIN dcall, i \in LtbIds : DispDelete(p, i)
    \/ \E p \in DOMAIN dcall : DispCondWait(p)
    \/ \E p \in DOMAIN dcall : DispSyncReturn(p)
    \/ \E j \in JobIds, i \in LtbIds : DispTrySend(j, i)
    \/ \E k \in ForceIds : DispForcePublish(k)
    \/ WReceive
    \/ WAddSize
    \/ WAddLink
    \/ WRmUnlink
    \/ WRmSize
    \/ WSyncLock
    \/ WSyncSignal
    \/ \E stage \in {"ok", "copyfail"} : WTsStage(stage)
    \/ WTsInc
    \/ WUpd(TRUE)
    \/ WTsCb
    \/ WFpTest
    \/ WPubFlag
    \/ \E how \in {"ok", "sendfail"} : WPubSend(how)
    \/ \E unlink_ok \in BOOLEAN : WPubUnlink(unlink_ok)
    \/ WPubDisp
    \/ WPubEnd
    \/ WDone

DispSpec == Init /\ [][DispNext]_vars

\* the static variables the closures share
Globals == << nb_files_total, lhead, publishing >>

\* C21: _nb_files_total, the registry and _publishing change only in steps
\* the worker takes inside a closure, never in a step of a thread calling
\* ltb_create, delete, trysend or force_publish; and whenever the worker
\* receives a message no closure is half done: _nb_files_total is the
\* number of files in the registered pools.
C21_StateChangesOnlyInWorker ==
    /\ [](dw.pc = "recv" => nb_files_total = Stored)
    /\ [][Globals' # Globals =>
            /\ dw.pc \notin {"recv", "done", "sync_lock", "sync_signal"}
            /\ dw'.pc # dw.pc
            /\ dcall' = dcall /\ dinst' = dinst]_vars

\* the worker is half way through _add_ltb, the total already counts a file
\* of an instance not yet in the registry, and meanwhile a producer has sent
\* a request
C21_Witness ==
    /\ dw.pc = "add_link"
    /\ nb_files_total # Stored
    /\ mbox # << >>

(***************************************************************************)
(* The id of a moved file at the end of the id range (data_pool.c).        *)
(***************************************************************************)
\* C39: a successful dpool_move_file gives its file a name that was not in
\* the pool directory before, and an id above the id of every conforming
\* file that was there.
C39_MoveNeverOverwrites ==
    (pcall.op = "move" /\ pcall.ret = Ok) =>
        /\ pcall.name \notin pcall.before
        /\ \A o \in ConformingIn(pcall.before) :
              FidLeq(NameFid(o), NameFid(pcall.name)) /\ o # pcall.name

(***************************************************************************)
(* recser_put on a full ring (rec_serial.c).                               *)
(***************************************************************************)
\* C40: a recser_put that finds the ring full returns -ENOSPC, leaves the
\* recser_t (ring, fit_cnt, simulated encoder) as it was and the record with
\* the caller, whatever the record and the rest of the state.
C40_FullRingNoSpace ==
    [][(op' = "put" /\ nput' = nput + 1 /\ peekcb_fill(rs.cb) = rs.cb.len) =>
          /\ res' = ENOSPC
          /\ rs' = rs
          /\ rec' = rec0']_vars

\* a put of a string record found the ring full: -ENOSPC, nothing changed,
\* the record still the caller's
C40_Witness ==
    /\ op = "put" /\ res = ENOSPC
    /\ peekcb_fill(rs.cb) = rs.cb.len /\ same
    /\ rec0.type = RECORDTYPE_STRING /\ rec = rec0

(***************************************************************************)
(* The logger when the driver refuses an envelope (logging.c).             *)
(***************************************************************************)
\* the environments of a put in which every allocation succeeds and
\* transdrv_trysend refuses the job, or takes it
Refused == [copy |-> TRUE, malloc |-> TRUE, snd |-> "wouldblock"]
Taken == [copy |-> TRUE, malloc |-> TRUE, snd |-> "sent"]

\* C32: for every put a producer may issue under the stream mutex, the
\* return value, the caller's record and the serializer after the put are
\* the same whether the driver's trysend refuses the envelope or takes it: a
\* refusal is not reported, nothing of the refused envelope stays queued for
\* a second attempt, and the refused envelope reaches no driver.
C32_RefusedEnvelopeIsDropped ==
    (lk.owner # 0 /\ lk.req = "put") =>
        \A r \in LoggRecords :
            \A g \in EncLenGarbage(recser_put(rs, record_copy(r, TRUE).to).rs) :
                /\ _logg_put(rs, lg.encbuf_size, r, Refused, g).ret
                      = _logg_put(rs, lg.encbuf_size, r, Taken, g).ret
                /\ _logg_put(rs, lg.encbuf_size, r, Refused, g).rs
                      = _logg_put(rs, lg.encbuf_size, r, Taken, g).rs
                /\ _logg_put(rs, lg.encbuf_size, r, Refused, g).rec
                      = _logg_put(rs, lg.encbuf_size, r, Taken, g).rec
                /\ _logg_put(rs, lg.encbuf_size, r, Refused, g).handed = << >>

\* every trysend so far was refused; the last put swapped an envelope out,
\* returned 0, and a record accepted before is neither in the ring nor in an
\* envelope a driver took
C32_Witness ==
    /\ regime /\ nflush = 0 /\ op = "logg_put" /\ res = Ok
    /\ handed = << >>
    /\ \E i \in DOMAIN accepted : accepted[i] \notin RingTs

\* C34: after a logger put that returned an error, the record passed is
\* not in the serializer's ring and in no envelope handed to the driver.
C34_FailedPutNotQueued ==
    (op = "logg_put" /\ res # Ok) =>
        /\ rec0.ts \notin RingTs
        /\ \A i \in DOMAIN HandedTs : HandedTs[i] # rec0.ts

(***************************************************************************)
(* The logger's flush when every allocation succeeds and the driver takes  *)
(* every job (logging.c).                                                  *)
(***************************************************************************)
\* one pass of the loop of _logg_flush: malloc succeeds, trysend returns 0
FlushPass == LoggFlushStep(Taken)

FlushNext ==
    \/ \E encbuf \in LoggBufLens, queue \in LoggQueues, base \in BaseNames,
          alloc \in LoggAllocs : LoggCreate(encbuf, queue, base, alloc)
    \/ \E p \in Producers, req \in {"put", "flush"} : LoggLock(p, req)
    \/ \E r \in LoggRecords, in \in LoggEnv : LoggPut(r, in)
    \/ FlushPass

\* the thread inside _logg_flush keeps running
FlushSpec == Init /\ [][FlushNext]_vars /\ WF_vars(FlushPass)

\* C33: a flush that has begun leaves its loop and releases the stream
\* mutex.
C33_FlushTerminates == (lk.owner # 0 /\ lk.req = "flush") ~> (lk.owner = 0)

(***************************************************************************)
(* The encoding buffers of the logger (logging.c).                         *)
(***************************************************************************)
\* what becomes of the buffer recser_swap hands back in one pass of the loop
\* of _logg_flush: "job" (owned by the file of a job the driver took, closed
\* by _logg_snd_cb), "closed" (vfs_close or free in _logg_send_buffer),
\* "freed" (free(ub.ptr) after a failed swap), "none" (malloc failed), or
\* "lost": ub still points to it when ub is assigned again or goes out of
\* scope
FlushOutFate(s, encbuf, in, garbage) ==
    IF ~in.malloc THEN "none"
    ELSE The({ IF sw.ret = EAGAIN \/ sw.ret = Ok
               THEN The({ IF sb.ub.ptr # NULL THEN "lost"
                          ELSE IF sb.sent THEN "job"
                          ELSE "closed" :
                          sb \in {_logg_send_buffer(sw.out, in.snd)} })
               ELSE "freed" :
               sw \in {recser_swap(s, [ptr |-> FreshPtr(s), len |-> encbuf], garbage)} })

\* C35: in no pass of a flush does the logger lose the pointer to a buffer
\* it has neither freed nor handed to a file: whatever the allocator and the
\* driver do, the buffer handed back by the swap is owned by a job's file,
\* closed or freed.
C35_NoBufferLost ==
    (lk.owner # 0 /\ lk.req = "flush") =>
        \A in \in LoggEnv : \A g \in EncLenGarbage(rs) :
            FlushOutFate(rs, lg.encbuf_size, in, g) # "lost"

(***************************************************************************)
(* The files a publication sends (ltb.c).                                  *)
(***************************************************************************)
\* transdrv_send returned 0 in the call of _ltb_publish recorded in tick
Sent(tick) == tick.out \in {"ok", "unlinkfail"}

\* C38: a file that the call of _ltb_publish in one closure has sent, and
\* that is still in its pool afterwards, is not sent again by the call of
\* _ltb_publish in the worker's next closure.
C38_SentFileNotSentAgain ==
    [][(gh' # gh /\ Sent(gh.tick) /\ gh.tick.fid \in pools[gh.tick.inst]
           /\ Sent(gh'.tick)) =>
          ~(gh'.tick.inst = gh.tick.inst /\ gh'.tick.fid = gh.tick.fid)]_vars

\* the pools when the last call of _ltb_publish selected its file: the file
\* it unlinked is put back
PoolsAtTick ==
    IF gh.tick.out = "ok"
    THEN [pools EXCEPT ![gh.tick.inst] = @ \cup {gh.tick.fid}]
    ELSE pools

\* the places in the registry of the instances that have a sender and,
\* when the file was selected, a file
Candidates ==
    {x \in DOMAIN lhead : ltbs[lhead[x]].sender /\ PoolsAtTick[lhead[x]] # {}}

\* C31: the file a call of _ltb_publish selected is the one with the
\* smallest id in the pool of the first instance, from the head of the
\* registry, that has a sender and a file; the instance has a sender, so an
\* instance without one loses no file, and no file of the instance with a
\* smaller id is passed over.
C31_FirstInstanceOldestFile ==
    gh.tick.out \in {"ok", "openfail", "sendfail", "unlinkfail"} =>
        /\ Candidates # {}
        /\ gh.tick.inst = lhead[Min(Candidates)]
        /\ ltbs[gh.tick.inst].sender
        /\ gh.tick.fid = Min(PoolsAtTick[gh.tick.inst])
        /\ \A i \in LtbIds : ~ltbs[i].sender => pools[i] = PoolsAtTick[i]

\* the files in the pools of the instances that are in the registry
RegisteredFiles ==
    UNION {{<< lhead[x], f >> : f \in pools[lhead[x]]} : x \in DOMAIN lhead}

\* C36: whenever the worker waits for the next closure, nb_files_total is
\* not negative and is the number of files in the pools of the registered
\* instances, after creations, deletions, trysends and publication ticks
\* whose listings succeed.
C36_TotalCountsRegisteredFiles ==
    dw.pc = "recv" =>
        /\ nb_files_total >= 0
        /\ nb_files_total = Cardinality(RegisteredFiles)

\* an instance whose pool holds a file has been deleted, a job has been
\* completed, and files of the instance that is left are counted
C36_Witness ==
    /\ dw.pc = "recv"
    /\ \E i \in LtbIds : dinst[i] = "gone" /\ pools[i] # {}
    /\ nb_files_total > 0
    /\ \E j \in JobIds : jobs[j].cbs = 1

(***************************************************************************)
(* The synchronous dispatch with threads that keep running: the worker     *)
(* takes its next step whenever it can, and a caller that can go on in     *)
(* _ltb_dispatch_sync does so.                                             *)
(***************************************************************************)
\* the threads that call ltb_create and the delete of an instance
Callers == {1, 2}

\* a step of the worker thread; no publication is forced
WorkerStep ==
    \/ WReceive
    \/ WAddSize
    \/ WAddLink
    \/ WRmUnlink
    \/ WRmSize
    \/ WSyncLock
    \/ WSyncSignal
    \/ WTsStage("ok")
    \/ WTsInc
    \/ WUpd(TRUE)
    \/ WTsCb
    \/ WPubFlag
    \/ WPubSend("ok")
    \/ \E unlink_ok \in BOOLEAN : WPubUnlink(unlink_ok)
    \/ WPubDisp
    \/ WPubEnd
    \/ WDone

\* a step of thread p inside _ltb_dispatch_sync after msg_send
CallerStep(p) == DispCondWait(p) \/ DispSyncReturn(p)

SyncNext ==
    \/ LtbSubsysInit(1, FALSE)
    \/ \E p \in Callers, i \in LtbIds : \E cf \in LtbConfigs(i) :
          DispCreate(p, i, cf.sender, cf.files)
    \/ \E p \in Callers, i \in LtbIds : DispDelete(p, i)
    \/ \E j \in JobIds, i \in LtbIds : DispTrySend(j, i)
    \/ \E p \in Callers : CallerStep(p)
    \/ WorkerStep

SyncSpec ==
    /\ Init /\ [][SyncNext]_vars
    /\ WF_vars(WorkerStep)
    /\ \A p \in Callers : WF_vars(CallerStep(p))

\* the places of instance i in the registry
Places(i) == {x \in DOMAIN lhead : lhead[x] = i}

\* C37: when _ltb_dispatch_sync returns, the worker has taken the unit from
\* its queue, has run its closure once (the instance is linked once after
\* _add_ltb, not linked after _remove_ltb) and has left the unit's lock; and
\* every call of _ltb_dispatch_sync returns.
C37_SyncDispatchReturnsAfterClosure ==
    /\ [][\A p \in Callers :
              (dcall[p] # NoSyncCall /\ dcall'[p] = NoSyncCall) =>
                  /\ \A n \in DOMAIN mbox : mbox[n] # dcall[p].unit
                  /\ wcur = dcall[p].unit => dw.pc = "done"
                  /\ Cardinality(Places(dcall[p].unit.id)) =
                         (IF dcall[p].unit.type = "add" THEN 1 ELSE 0)]_vars
    /\ \A p \in Callers : (dcall[p] # NoSyncCall) ~> (dcall[p] = NoSyncCall)

\* a deletion has returned while the other thread is inside ltb_create with
\* its unit in the worker's queue behind a job
C37_Witness ==
    /\ \E i \in LtbIds : dinst[i] = "gone"
    /\ \E p \in Callers : dcall[p].pc = "waiting" /\ dcall[p].unit.type = "add"
                          /\ \E n \in DOMAIN mbox : mbox[n] = dcall[p].unit


====
